---- MODULE Spec2Model ----
(***************************************************************************)
(* news-digest: the paper selector (paper_fetcher.select_paper), the seen-  *)
(* paper store (paper_dedup.PaperDeduplicator) and the run_* orchestrators  *)
(* of main.py, as state machines.                                           *)
(***************************************************************************)
EXTENDS Integers, Sequences, FiniteSets, TLC

\* ------------------------------------------------------------------ bounds
MaxCands == 3      \* longest candidate list handed to select_paper
MaxTopK == 3       \* top_k ranges over -MaxTopK .. MaxTopK
TicksPerDay == 2   \* clock resolution: ticks in one day
MaxTicks == 2      \* ticks the clock advances during a behaviour
MaxWindow == 1     \* prune(window_days) is called with 0 .. MaxWindow
MaxCalls == 3      \* store calls one client process makes
MaxRuns == 2       \* processes started during a behaviour
MaxFeed == 2       \* papers in one feed or API response
MaxCodes == 2      \* RSS codes handed to fetch_rss
MaxGeminiRetries == 3  \* call_gemini is called with max_retries in -1 .. MaxGeminiRetries
MaxYears == 3      \* get_todays_category is called on the days of MaxYears years
MaxRetries == 7    \* search_arxiv is called with max_retries in 0 .. MaxRetries

\* ------------------------------------------------------------- constants
DefaultTopK == 10  \* select_paper(..., top_k: int = 10)

PaperWindowDays == 30  \* run_paper: dedup.prune(window_days=30)
DedupWindowDays == 1   \* run_collect: config.dedup_window_days
FirstYear == 2026  \* the year the rotation tests use
DefaultMaxRetries == 3 \* search_arxiv(..., max_retries: int = 3)
RateLimitWait == 3     \* search_arxiv: time.sleep(3)
BackoffBase == 5       \* search_arxiv: base = 5
BackoffCap == 120      \* search_arxiv: min(..., 120)
DefaultGeminiRetries == 2  \* call_gemini(..., max_retries: int = 2)
GeminiDelayStep == 5       \* call_gemini: delay = 5 * (attempt + 1)
FallbackAbstractLimit == 300  \* _fallback_summary: paper.abstract[:300]

PaperIds == {"p1", "p2", "p3"}
Titles == {"t1", "t2"}
ArticleIds == {"a1", "a2"}

VARIABLES
    papers,     \* select_paper / run_paper: the candidate list (paper ids, best first)
    seen_ids,   \* select_paper / run_paper: the seen set
    top_k,      \* select_paper: the pool size
    paper,      \* select_paper / run_paper: what the call produced
    pc,         \* position of the running code
    db_file,    \* data/seen_papers.json as it is on disk
    seen,       \* PaperDeduplicator._seen of the running process
    call,       \* the store call made last: operation, arguments, clock, result
    ncalls,     \* store calls made by the running process
    ret,        \* where save() returns to
    saving,     \* history: save() was entered by the running process
    db_at_load, \* history: db_file when the running process loaded it
    db_at_save, \* history: db_file when save() was entered last
    exc,        \* the exception that ended the process, "killed", or "none"
    exit_code,  \* the exit status of the process: "running", "0" or "1"
    cmd,        \* what the process runs: "api", "paper", "collect", "digest"
    dry_run,    \* --dry-run
    log,        \* the stages the running orchestrator went through, in order
    digests,    \* the files present under digests/
    prs,        \* pull requests opened so far
    now,        \* the clock, in ticks
    ticks,      \* ticks elapsed since the behaviour began
    workflow,   \* the scheduled workflow the behaviour follows: "paper" or "news"
    runs,       \* processes started so far
    adb_file,   \* the article seen-store file
    aseen,      \* the Deduplicator's mapping in the running process
    all_articles, \* run_collect: what fetch_all_articles returned
    new_articles, \* run_collect: what filter_new returned
    weekly_file,  \* data/weekly_articles.json as it is on disk
    buffer,     \* run_collect / run_digest: the weekly buffer in memory
    wb_arg,     \* _save_weekly_buffer: the list being written
    done,       \* history: the runs that completed their save, oldest first
    args,       \* a library function under call: its arguments and the replies
                \* the network gives to the requests it makes
    result,     \* what the function returned or raised
    effects     \* the requests, sleeps and calls the function made, in order

selVars == <<papers, seen_ids, top_k, paper>>
dbVars == <<db_file, seen, call, ncalls, ret, saving, db_at_load, db_at_save>>
endVars == <<exc, exit_code>>
runVars == <<cmd, dry_run, log>>
outVars == <<digests, prs>>
clockVars == <<now, ticks>>
schedVars == <<workflow, runs>>
libVars == <<args, result, effects>>
newsFiles == <<adb_file, weekly_file>>
newsLocals == <<aseen, all_articles, new_articles, buffer, wb_arg>>
newsVars == <<adb_file, weekly_file, aseen, all_articles, new_articles, buffer, wb_arg>>
vars == <<papers, seen_ids, top_k, paper, pc, db_file, seen, call, ncalls, ret, saving,
          db_at_load, db_at_save, exc, exit_code, cmd, dry_run, log, digests, prs,
          now, ticks, workflow, runs, adb_file, aseen, all_articles, new_articles,
          weekly_file, buffer, wb_arg, done, args, result, effects>>

\* ------------------------------------------------------------ sequences
RECURSIVE SeqsUpTo(_, _)
SeqsUpTo(S, n) ==
    IF n = 0 THEN {<<>>}
    ELSE LET shorter == SeqsUpTo(S, n - 1)
         IN shorter \cup {Append(s, x) : s \in {t \in shorter : Len(t) = n - 1}, x \in S}

Min(a, b) == IF a < b THEN a ELSE b
Max(a, b) == IF a > b THEN a ELSE b

\* ------------------------------------------------- select_paper (pure)
Unset == [kind |-> "unset", paper_id |-> "", pos |-> 0]
None == [kind |-> "None", paper_id |-> "", pos |-> 0]
Raised(e) == [kind |-> e, paper_id |-> "", pos |-> 0]

\* candidates = [p for p in papers if p.paper_id not in seen_ids]
CandidatesNoFilter(ps, sn) == ps
Candidates(ps, sn) == SelectSeq(ps, LAMBDA p : p \notin sn)

\* Python's s[:k]: the first k elements, and for k < 0 all but the last -k.
SliceWhole(s, k) == s
Slice(s, k) ==
    IF k >= 0 THEN SubSeq(s, 1, Min(k, Len(s)))
    ELSE SubSeq(s, 1, Max(Len(s) + k, 0))

\* The outcomes of select_paper(ps, sn, k): random.choice(pool) is any
\* element of a non-empty pool and raises IndexError on an empty one.
\* pos is the chosen element's position in the unseen candidates.
select_paper(ps, sn, k) ==
    LET candidates == Candidates(ps, sn)
        pool == Slice(candidates, k)
    IN  IF candidates = <<>> THEN {None}
        ELSE IF pool = <<>> THEN {Raised("IndexError")}
        ELSE {[kind |-> "paper", paper_id |-> pool[i], pos |-> i] : i \in 1..Len(pool)}


\* ------------------------------------------------ PaperDeduplicator (pure)
\* A store file is missing, cannot be opened, holds bytes that are not UTF-8,
\* holds text that is not JSON, holds JSON that is not an object, or holds an
\* object ("dict"); "truncated" and "partial" are what an interrupted save
\* leaves. data is the object's entries.
File(kind, data) == [kind |-> kind, data |-> data]
MissingFile == File("missing", {})

\* The value stored under a key: an object with an aware ISO seen_at ("ok"),
\* with a seen_at that has no timezone ("naive"), that is no ISO timestamp
\* ("bad_iso"), that is no string ("not_str"), without seen_at
\* ("no_seen_at"), or no object at all ("not_dict").
Shapes == {"ok", "naive", "bad_iso", "not_str", "no_seen_at", "not_dict"}
Entry(id, title, shape, at) ==
    [paper_id |-> id, title |-> title, shape |-> shape, seen_at |-> at]
Keys(m) == {e.paper_id : e \in m}
UniqueKeys(m) == \A e1, e2 \in m : e1.paper_id = e2.paper_id => e1 = e2

\* What open() and json.load() raise on the file.
ReadError(f) ==
    CASE f.kind = "unreadable" -> "OSError"
      [] f.kind = "not_utf8" -> "UnicodeDecodeError"
      [] f.kind \in {"bad_json", "truncated", "partial"} -> "JSONDecodeError"
      [] OTHER -> "none"

\* except (json.JSONDecodeError, OSError)
CaughtOnLoad == {"JSONDecodeError", "OSError"}

\* _load: the mapping read, or the exception that leaves it.
Outcome(e, m) == [exc |-> e, data |-> m]
load(f) ==
    IF f.kind = "missing" THEN Outcome("none", {})
    ELSE IF ReadError(f) \in CaughtOnLoad THEN Outcome("none", {})
    ELSE IF ReadError(f) # "none" THEN Outcome(ReadError(f), {})
    ELSE IF f.kind # "dict" THEN Outcome("none", {})
    ELSE Outcome("none", f.data)

\* What the body of prune's try raises for an entry: entry["seen_at"],
\* datetime.fromisoformat(...), now - seen_at with now timezone-aware.
ParseError(e) ==
    CASE e.shape = "not_dict" -> "TypeError"
      [] e.shape = "no_seen_at" -> "KeyError"
      [] e.shape = "not_str" -> "TypeError"
      [] e.shape = "bad_iso" -> "ValueError"
      [] e.shape = "naive" -> "TypeError"
      [] OTHER -> "none"

\* except (KeyError, ValueError)
CaughtOnPrune == {"KeyError", "ValueError"}

\* (now - seen_at).days: timedelta.days is the floor of the whole days.
Days(t, at) == (t - at) \div TicksPerDay

\* (now - seen_at).days > window_days
Expired(e, t, window) == Days(t, e.seen_at) > window

\* prune: an exception outside (KeyError, ValueError) leaves the loop before
\* anything is deleted; otherwise the expired and the caught entries go.
prune(m, t, window) ==
    IF \E e \in m : ParseError(e) \notin (CaughtOnPrune \cup {"none"})
    THEN Outcome("TypeError", m)
    ELSE Outcome("none", {e \in m : ParseError(e) = "none" /\ ~Expired(e, t, window)})

\* mark_seen: self._seen[paper_id] = {"title": title, "seen_at": now.isoformat()};
\* the timestamp it writes is timezone-aware and parses back to the same instant.
mark_seen_append(m, id, title, t) == m \cup {Entry(id, title, "ok", t)}
mark_seen(m, id, title, t) ==
    {e \in m : e.paper_id # id} \cup {Entry(id, title, "ok", t)}

is_seen(m, id) == id \in Keys(m)
get_seen_ids_none(m) == {}
get_seen_ids(m) == Keys(m)

\* self._seen[paper_id]["seen_at"]
SeenAt(m, id) == (CHOOSE e \in m : e.paper_id = id).seen_at

\* No library function is under call.
NoArgs == [fn |-> "none"]
NoResult == [exc |-> "none", data |-> <<>>]

\* ------------------------------------------------ PaperDeduplicator (steps)
NoCall == [op |-> "none", paper_id |-> "", title |-> "", window |-> 0, t |-> 0,
           hit |-> FALSE]
Call(op, id, title, window, t, hit) ==
    [op |-> op, paper_id |-> id, title |-> title, window |-> window, t |-> t,
     hit |-> hit]

\* An uncaught exception ends the process with a non-zero status.
Die(e) ==
    /\ exc' = e
    /\ exit_code' = "1"
    /\ pc' = "stopped"

\* sys.exit(status), or returning from the command (status "0").
Exit(status) ==
    /\ exit_code' = status
    /\ pc' = "stopped"
    /\ UNCHANGED exc

Goto(next) ==
    /\ pc' = next
    /\ UNCHANGED endVars

\* PaperDeduplicator(): self._seen = self._load()
Construct(next) ==
    /\ db_at_load' = db_file
    /\ call' = Call("load", "", "", 0, now, FALSE)
    /\ ncalls' = ncalls + 1
    /\ LET r == load(db_file)
       IN  IF r.exc # "none"
           THEN Die(r.exc) /\ UNCHANGED seen
           ELSE seen' = r.data /\ Goto(next)
    /\ UNCHANGED <<db_file, ret, saving, db_at_save>>

\* dedup.prune(window_days=window)
DoPruneAutoSave(window, next) ==
    /\ call' = Call("prune", "", "", window, now, FALSE)
    /\ ncalls' = ncalls + 1
    /\ seen' = prune(seen, now, window).data
    /\ db_file' = File("dict", seen')
    /\ Goto(next)
    /\ UNCHANGED <<ret, saving, db_at_load, db_at_save>>
DoPrune(window, next) ==
    /\ call' = Call("prune", "", "", window, now, FALSE)
    /\ ncalls' = ncalls + 1
    /\ LET r == prune(seen, now, window)
       IN  IF r.exc # "none"
           THEN Die(r.exc) /\ UNCHANGED seen
           ELSE seen' = r.data /\ Goto(next)
    /\ UNCHANGED <<db_file, ret, saving, db_at_load, db_at_save>>

\* dedup.mark_seen(id, title)
DoMarkSeen(id, title, next) ==
    /\ call' = Call("mark_seen", id, title, 0, now, is_seen(seen, id))
    /\ ncalls' = ncalls + 1
    /\ seen' = mark_seen(seen, id, title, now)
    /\ Goto(next)
    /\ UNCHANGED <<db_file, ret, saving, db_at_load, db_at_save>>

\* dedup.save() is entered; next is where it returns to.
DoSave(next) ==
    /\ call' = Call("save", "", "", 0, now, FALSE)
    /\ ncalls' = ncalls + 1
    /\ ret' = next
    /\ Goto("save")
    /\ UNCHANGED <<db_file, seen, saving, db_at_load, db_at_save>>

\* save(): open(self.db_path, "w") truncates the file; a file that cannot be
\* opened for reading may refuse the write as well.
SaveOpen ==
    /\ pc = "save"
    /\ saving' = TRUE
    /\ db_at_save' = db_file
    /\ \/ /\ db_file' = File("truncated", {})
          /\ Goto("save_opened")
       \/ /\ db_file.kind = "unreadable"
          /\ Die("OSError")
          /\ UNCHANGED db_file
    /\ UNCHANGED <<seen, call, ncalls, ret, db_at_load>>
    /\ UNCHANGED <<selVars, runVars, outVars, clockVars, newsVars, schedVars, libVars, done>>

\* json.dump writes the document in chunks: a non-empty mapping can be on
\* disk in part before the file is closed.
SaveFlush ==
    /\ pc = "save_opened"
    /\ seen # {}
    /\ db_file' = File("partial", {})
    /\ Goto("save_writing")
    /\ UNCHANGED <<seen, call, ncalls, ret, saving, db_at_load, db_at_save>>
    /\ UNCHANGED <<selVars, runVars, outVars, clockVars, newsVars, schedVars, libVars, done>>

\* Leaving the with block closes the file: the whole mapping is on disk.
SaveClose ==
    /\ pc \in {"save_opened", "save_writing"}
    /\ db_file' = File("dict", seen)
    /\ Goto(ret)
    /\ UNCHANGED <<seen, call, ncalls, ret, saving, db_at_load, db_at_save>>
    /\ UNCHANGED <<selVars, runVars, outVars, clockVars, newsVars, schedVars, libVars, done>>

SavePcs == {"save", "save_opened", "save_writing"}

\* A run that got through its save: the items it put to filter_new, the
\* items it took as new, and when.
Done(c, asked, new, t) ==
    [cmd |-> c, run |-> runs, dry |-> dry_run, asked |-> asked, new |-> new, at |-> t]

\* What a process starts with.
Fresh(c, dry) ==
    /\ cmd' = c /\ dry_run' = dry /\ log' = <<>>
    /\ exc' = "none" /\ exit_code' = "running"
    /\ seen' = {} /\ call' = NoCall /\ ncalls' = 0 /\ ret' = "" /\ saving' = FALSE
    /\ db_at_load' = db_file /\ db_at_save' = db_file
    /\ papers' = <<>> /\ seen_ids' = {} /\ top_k' = DefaultTopK /\ paper' = Unset
    /\ aseen' = {} /\ all_articles' = <<>> /\ new_articles' = <<>> /\ buffer' = <<>>
    /\ wb_arg' = <<>>
    /\ runs' = runs + 1
    /\ UNCHANGED <<db_file, outVars, clockVars, newsFiles, workflow, done, libVars>>

\* --------------------------------------- a client of PaperDeduplicator
\* A process that constructs a PaperDeduplicator and calls its methods in any
\* order, as the callers and tests of the class may.
ApiStart ==
    /\ pc \in {"idle", "stopped"}
    /\ Fresh("api", FALSE)
    /\ pc' = "new"

ApiConstruct ==
    /\ pc = "new"
    /\ Construct("api")
    /\ UNCHANGED <<selVars, runVars, outVars, clockVars, newsVars, schedVars, libVars, done>>

ApiPrune ==
    /\ pc = "api" /\ ncalls < MaxCalls
    /\ \E window \in 0..MaxWindow : DoPrune(window, "api")
    /\ UNCHANGED <<selVars, runVars, outVars, clockVars, newsVars, schedVars, libVars, done>>

ApiMarkSeen ==
    /\ pc = "api" /\ ncalls < MaxCalls
    /\ \E id \in PaperIds, title \in Titles : DoMarkSeen(id, title, "api")
    /\ UNCHANGED <<selVars, runVars, outVars, clockVars, newsVars, schedVars, libVars, done>>

ApiIsSeen ==
    /\ pc = "api" /\ ncalls < MaxCalls
    /\ \E id \in PaperIds :
          call' = Call("is_seen", id, "", 0, now, is_seen(seen, id))
    /\ ncalls' = ncalls + 1
    /\ UNCHANGED <<pc, db_file, seen, ret, saving, db_at_load, db_at_save>>
    /\ UNCHANGED <<selVars, endVars, runVars, outVars, clockVars, newsVars, schedVars, libVars, done>>

ApiGetSeenIds ==
    /\ pc = "api" /\ ncalls < MaxCalls
    /\ call' = Call("get_seen_ids", "", "", 0, now, get_seen_ids(seen) # {})
    /\ ncalls' = ncalls + 1
    /\ UNCHANGED <<pc, db_file, seen, ret, saving, db_at_load, db_at_save>>
    /\ UNCHANGED <<selVars, endVars, runVars, outVars, clockVars, newsVars, schedVars, libVars, done>>

ApiSave ==
    /\ pc = "api" /\ ncalls < MaxCalls
    /\ DoSave("api")
    /\ UNCHANGED <<selVars, runVars, outVars, clockVars, newsVars, schedVars, libVars, done>>

ApiExit ==
    /\ pc = "api"
    /\ Exit("0")
    /\ UNCHANGED <<selVars, dbVars, runVars, outVars, clockVars, newsVars, schedVars, libVars, done>>

\* The process is killed between two steps.
Crash ==
    /\ pc \notin {"idle", "stopped"}
    /\ pc' = "stopped"
    /\ exc' = "killed"
    /\ exit_code' = "killed"
    /\ UNCHANGED <<selVars, dbVars, runVars, outVars, clockVars, newsVars, schedVars, libVars, done>>

Tick ==
    /\ ticks < MaxTicks
    /\ now' = now + 1
    /\ ticks' = ticks + 1
    /\ UNCHANGED <<pc, selVars, dbVars, endVars, runVars, outVars, newsVars, schedVars, libVars, done>>

\* ------------------------------------------------------------- run_paper
\* What fetch_papers_for_category hands back: papers sorted by published,
\* newest first (p1 is published last), each paper at most once.
Ranked == <<"p1", "p2", "p3">>
FetchedPapers == {SelectSeq(Ranked, LAMBDA p : p \in S) : S \in SUBSET PaperIds}

\* paper.title
TitleOf(id) == "t1"

Logged(e) == log' = Append(log, e)

RpStart ==
    /\ pc \in {"idle", "stopped"}
    /\ \E dry \in BOOLEAN : Fresh("paper", dry)
    /\ pc' = "rp_fetch"

\* papers = fetch_papers_for_category(category); if not papers: sys.exit(1)
RpFetch ==
    /\ pc = "rp_fetch"
    /\ papers' \in FetchedPapers
    /\ Logged("fetch")
    /\ IF papers' = <<>> THEN Exit("1") ELSE Goto("rp_load")
    /\ UNCHANGED <<seen_ids, top_k, paper, dbVars, cmd, dry_run, outVars, clockVars, newsVars, schedVars, libVars, done>>

\* dedup = PaperDeduplicator()
RpLoad ==
    /\ pc = "rp_load"
    /\ Construct("rp_prune")
    /\ Logged("load")
    /\ UNCHANGED <<selVars, cmd, dry_run, outVars, clockVars, newsVars, schedVars, libVars, done>>

\* dedup.prune(window_days=30)
RpPrune ==
    /\ pc = "rp_prune"
    /\ DoPrune(PaperWindowDays, "rp_seen_ids")
    /\ Logged("prune")
    /\ UNCHANGED <<selVars, cmd, dry_run, outVars, clockVars, newsVars, schedVars, libVars, done>>

\* seen_ids = dedup.get_seen_ids()
RpGetSeenIds ==
    /\ pc = "rp_seen_ids"
    /\ seen_ids' = get_seen_ids(seen)
    /\ call' = Call("get_seen_ids", "", "", 0, now, seen_ids' # {})
    /\ ncalls' = ncalls + 1
    /\ Goto("rp_select")
    /\ UNCHANGED <<papers, top_k, paper, db_file, seen, ret, saving, db_at_load,
                   db_at_save, runVars, outVars, clockVars, newsVars, schedVars, libVars, done>>

\* paper = select_paper(papers, seen_ids); if paper is None: sys.exit(1)
RpSelectGoOn ==
    /\ pc = "rp_select"
    /\ paper' \in select_paper(papers, seen_ids, top_k)
    /\ Logged("select")
    /\ IF paper'.kind \in {"None", "paper"} THEN Goto("rp_summarize") ELSE Die(paper'.kind)
    /\ UNCHANGED <<papers, seen_ids, top_k, dbVars, cmd, dry_run, outVars, clockVars, newsVars, schedVars, libVars, done>>
RpSelect ==
    /\ pc = "rp_select"
    /\ paper' \in select_paper(papers, seen_ids, top_k)
    /\ Logged("select")
    /\ CASE paper' = None -> Exit("1")
         [] paper'.kind = "paper" -> Goto("rp_summarize")
         [] OTHER -> Die(paper'.kind)
    /\ UNCHANGED <<papers, seen_ids, top_k, dbVars, cmd, dry_run, outVars, clockVars, newsVars, schedVars, libVars, done>>

\* summary = summarize_paper(paper, api_key)
RpSummarizeThenSave ==
    /\ pc = "rp_summarize"
    /\ Logged("summarize")
    /\ Goto("rp_mark")
    /\ UNCHANGED <<selVars, dbVars, cmd, dry_run, outVars, clockVars, newsVars, schedVars, libVars, done>>
RpSummarize ==
    /\ pc = "rp_summarize"
    /\ Logged("summarize")
    /\ Goto("rp_write")
    /\ UNCHANGED <<selVars, dbVars, cmd, dry_run, outVars, clockVars, newsVars, schedVars, libVars, done>>

\* digest_path.write_text(format_paper_pr_body(paper, summary, date_label))
RpWrite ==
    /\ pc = "rp_write"
    /\ digests' = digests \cup {"paper"}
    /\ Logged("write_digest")
    /\ Goto("rp_mark")
    /\ UNCHANGED <<selVars, dbVars, cmd, dry_run, prs, clockVars, newsVars, schedVars, libVars, done>>

\* dedup.mark_seen(paper.paper_id, paper.title)
RpMarkSeenUnlessDry ==
    /\ pc = "rp_mark"
    /\ IF dry_run
       THEN Goto("rp_save") /\ UNCHANGED dbVars
       ELSE DoMarkSeen(paper.paper_id, TitleOf(paper.paper_id), "rp_save")
    /\ Logged("mark_seen")
    /\ UNCHANGED <<selVars, cmd, dry_run, outVars, clockVars, newsVars, schedVars, libVars, done>>
RpMarkSeen ==
    /\ pc = "rp_mark"
    /\ DoMarkSeen(paper.paper_id, TitleOf(paper.paper_id), "rp_save")
    /\ Logged("mark_seen")
    /\ UNCHANGED <<selVars, cmd, dry_run, outVars, clockVars, newsVars, schedVars, libVars, done>>

\* dedup.save()
RpSave ==
    /\ pc = "rp_save"
    /\ DoSave("rp_saved")
    /\ Logged("save")
    /\ UNCHANGED <<selVars, cmd, dry_run, outVars, clockVars, newsVars, schedVars, libVars, done>>

\* if dry_run: print(pr_body); return
RpAfterSavePublish ==
    /\ pc = "rp_saved"
    /\ done' = Append(done, Done("paper", <<>>, <<paper.paper_id>>,
                                  SeenAt(seen, paper.paper_id)))
    /\ UNCHANGED log /\ Goto("rp_pr")
    /\ UNCHANGED <<selVars, dbVars, cmd, dry_run, outVars, clockVars, newsVars, schedVars, libVars>>
RpAfterSave ==
    /\ pc = "rp_saved"
    /\ done' = Append(done, Done("paper", <<>>, <<paper.paper_id>>,
                                  SeenAt(seen, paper.paper_id)))
    /\ IF dry_run THEN Logged("print") /\ Exit("0")
                  ELSE UNCHANGED log /\ Goto("rp_pr")
    /\ UNCHANGED <<selVars, dbVars, cmd, dry_run, outVars, clockVars, newsVars, schedVars, libVars>>

\* pr_url = create_pr(...): a URL, or nothing when publishing failed.
RpCreatePrFatal ==
    /\ pc = "rp_pr"
    /\ \E url \in BOOLEAN :
          /\ prs' = IF url THEN prs \cup {"paper"} ELSE prs
          /\ Logged(IF url THEN "create_pr" ELSE "create_pr_failed")
          /\ Exit(IF url THEN "0" ELSE "1")
    /\ UNCHANGED <<selVars, dbVars, cmd, dry_run, digests, clockVars, newsVars, schedVars, libVars, done>>
RpCreatePr ==
    /\ pc = "rp_pr"
    /\ \E url \in BOOLEAN :
          /\ prs' = IF url THEN prs \cup {"paper"} ELSE prs
          /\ Logged(IF url THEN "create_pr" ELSE "create_pr_failed")
    /\ Exit("0")
    /\ UNCHANGED <<selVars, dbVars, cmd, dry_run, digests, clockVars, newsVars, schedVars, libVars, done>>

RunPaper ==
    \/ RpFetch \/ RpLoad \/ RpPrune \/ RpGetSeenIds \/ RpSelect \/ RpSummarize
    \/ RpWrite \/ RpMarkSeen \/ RpSave \/ RpAfterSave \/ RpCreatePr

\* ------------------------------------------------ the article seen-store
\* Deduplicator: load fails soft, prune drops the entries older than the
\* window, filter_new keeps the items not in the store and leaves the store
\* alone, save writes the whole mapping in one step.
ArticleEntry(id, at) == [id |-> id, seen_at |-> at]
ArticleKeys(m) == {e.id : e \in m}
article_load(f) == IF f.kind = "dict" THEN f.data ELSE {}
article_prune(m, t, window) == {e \in m : ~(t - e.seen_at > window * TicksPerDay)}
filter_new(items, m) == SelectSeq(items, LAMBDA a : a \notin ArticleKeys(m))

\* ------------------------------------------------------ the weekly buffer
\* _load_weekly_buffer: [] for a missing file, for what (JSONDecodeError,
\* OSError) covers and for JSON that is not a list.
load_weekly_buffer(f) ==
    IF f.kind = "missing" THEN Outcome("none", <<>>)
    ELSE IF ReadError(f) \in CaughtOnLoad THEN Outcome("none", <<>>)
    ELSE IF ReadError(f) # "none" THEN Outcome(ReadError(f), <<>>)
    ELSE IF f.kind # "list" THEN Outcome("none", <<>>)
    ELSE Outcome("none", f.data)

\* _save_weekly_buffer(articles) is entered; next is where it returns to.
SaveWeekly(articles, next) ==
    /\ wb_arg' = articles
    /\ ret' = next
    /\ Goto("wb_save")

\* open(WEEKLY_BUFFER, "w") truncates the file.
WbOpen ==
    /\ pc = "wb_save"
    /\ weekly_file' = File("truncated", <<>>)
    /\ Goto("wb_opened")
    /\ UNCHANGED <<selVars, dbVars, runVars, outVars, clockVars, schedVars, libVars, done, adb_file,
                   newsLocals>>

\* Leaving the with block closes the file: the whole list is on disk.
WbClose ==
    /\ pc = "wb_opened"
    /\ weekly_file' = File("list", wb_arg)
    /\ Goto(ret)
    /\ UNCHANGED <<selVars, dbVars, runVars, outVars, clockVars, schedVars, libVars, done, adb_file,
                   newsLocals>>

\* ----------------------------------------------------------- run_collect
\* What fetch_all_articles hands back: any articles, each at most once.
FetchedArticles ==
    {s \in SeqsUpTo(ArticleIds, Cardinality(ArticleIds)) :
        \A i, j \in 1..Len(s) : s[i] = s[j] => i = j}

RcStart ==
    /\ pc \in {"idle", "stopped"}
    /\ Fresh("collect", FALSE)
    /\ pc' = "rc_fetch"

\* all_articles, feed_stats = fetch_all_articles(...); if not all_articles: sys.exit(1)
RcFetchGoOn ==
    /\ pc = "rc_fetch"
    /\ all_articles' \in FetchedArticles
    /\ Logged("fetch")
    /\ Goto("rc_load")
    /\ UNCHANGED <<selVars, dbVars, cmd, dry_run, outVars, clockVars, schedVars, libVars, done,
                   newsFiles, aseen, new_articles, buffer, wb_arg>>
RcFetch ==
    /\ pc = "rc_fetch"
    /\ all_articles' \in FetchedArticles
    /\ Logged("fetch")
    /\ IF all_articles' = <<>> THEN Exit("1") ELSE Goto("rc_load")
    /\ UNCHANGED <<selVars, dbVars, cmd, dry_run, outVars, clockVars, schedVars, libVars, done,
                   newsFiles, aseen, new_articles, buffer, wb_arg>>

\* dedup = Deduplicator()
RcLoad ==
    /\ pc = "rc_load"
    /\ aseen' = article_load(adb_file)
    /\ Logged("load")
    /\ Goto("rc_prune")
    /\ UNCHANGED <<selVars, dbVars, cmd, dry_run, outVars, clockVars, schedVars, libVars, done,
                   newsFiles, all_articles, new_articles, buffer, wb_arg>>

\* dedup.prune(window_days=config.dedup_window_days)
RcPrune ==
    /\ pc = "rc_prune"
    /\ aseen' = article_prune(aseen, now, DedupWindowDays)
    /\ Logged("prune")
    /\ Goto("rc_filter")
    /\ UNCHANGED <<selVars, dbVars, cmd, dry_run, outVars, clockVars, schedVars, libVars, done,
                   newsFiles, all_articles, new_articles, buffer, wb_arg>>

\* new_articles = dedup.filter_new(all_articles)
RcFilter ==
    /\ pc = "rc_filter"
    /\ new_articles' = filter_new(all_articles, aseen)
    /\ Logged("filter")
    /\ IF new_articles' = <<>> THEN Goto("rc_save_empty") ELSE Goto("rc_write")
    /\ UNCHANGED <<selVars, dbVars, cmd, dry_run, outVars, clockVars, schedVars, libVars, done,
                   newsFiles, aseen, all_articles, buffer, wb_arg>>

\* if not new_articles: dedup.save(); return
RcSaveEmpty ==
    /\ pc = "rc_save_empty"
    /\ adb_file' = File("dict", aseen)
    /\ done' = Append(done, Done("collect", all_articles, new_articles, now))
    /\ Logged("save")
    /\ Exit("0")
    /\ UNCHANGED <<selVars, dbVars, cmd, dry_run, outVars, clockVars, schedVars, libVars,
                   weekly_file, newsLocals>>

\* digest_path.write_text(format_digest(...))
RcWrite ==
    /\ pc = "rc_write"
    /\ digests' = digests \cup {"daily"}
    /\ Logged("write_digest")
    /\ Goto("rc_load_buffer")
    /\ UNCHANGED <<selVars, dbVars, cmd, dry_run, prs, clockVars, schedVars, libVars, done, newsVars>>

\* buffer = _load_weekly_buffer()
RcLoadBuffer ==
    /\ pc = "rc_load_buffer"
    /\ Logged("load_buffer")
    /\ LET r == load_weekly_buffer(weekly_file)
       IN  IF r.exc # "none"
           THEN Die(r.exc) /\ UNCHANGED buffer
           ELSE buffer' = r.data /\ Goto("rc_append")
    /\ UNCHANGED <<selVars, dbVars, cmd, dry_run, outVars, clockVars, schedVars, libVars, done,
                   newsFiles, aseen, all_articles, new_articles, wb_arg>>

\* for a in summarized: buffer.append(_article_to_dict(a));
\* _save_weekly_buffer(buffer)
RcAppendReplace ==
    /\ pc = "rc_append"
    /\ buffer' = new_articles
    /\ SaveWeekly(buffer', "rc_save")
    /\ Logged("save_buffer")
    /\ UNCHANGED <<selVars, db_file, seen, call, ncalls, saving, db_at_load, db_at_save,
                   cmd, dry_run, outVars, clockVars, schedVars, libVars, done, newsFiles, aseen,
                   all_articles, new_articles>>
RcAppend ==
    /\ pc = "rc_append"
    /\ buffer' = buffer \o new_articles
    /\ SaveWeekly(buffer', "rc_save")
    /\ Logged("save_buffer")
    /\ UNCHANGED <<selVars, db_file, seen, call, ncalls, saving, db_at_load, db_at_save,
                   cmd, dry_run, outVars, clockVars, schedVars, libVars, done, newsFiles, aseen,
                   all_articles, new_articles>>

\* dedup.save()
RcSave ==
    /\ pc = "rc_save"
    /\ adb_file' = File("dict", aseen)
    /\ done' = Append(done, Done("collect", all_articles, new_articles, now))
    /\ Logged("save")
    /\ Exit("0")
    /\ UNCHANGED <<selVars, dbVars, cmd, dry_run, outVars, clockVars, schedVars, libVars,
                   weekly_file, newsLocals>>

RunCollect ==
    \/ RcFetch \/ RcLoad \/ RcPrune \/ RcFilter \/ RcSaveEmpty \/ RcWrite
    \/ RcLoadBuffer \/ RcAppend \/ RcSave

\* ------------------------------------------------------------ run_digest
RdStart ==
    /\ pc \in {"idle", "stopped"}
    /\ \E dry \in BOOLEAN : Fresh("digest", dry)
    /\ pc' = "rd_load"

\* buffer = _load_weekly_buffer(); if not buffer: return
RdLoad ==
    /\ pc = "rd_load"
    /\ Logged("load_buffer")
    /\ LET r == load_weekly_buffer(weekly_file)
       IN  IF r.exc # "none"
           THEN Die(r.exc) /\ UNCHANGED buffer
           ELSE /\ buffer' = r.data
                /\ IF r.data = <<>> THEN Exit("0") ELSE Goto("rd_briefing")
    /\ UNCHANGED <<selVars, dbVars, cmd, dry_run, outVars, clockVars, schedVars, libVars, done,
                   newsFiles, aseen, all_articles, new_articles, wb_arg>>

\* briefing = generate_briefing(articles, api_key)
RdBriefing ==
    /\ pc = "rd_briefing"
    /\ Logged("summarize")
    /\ Goto("rd_write")
    /\ UNCHANGED <<selVars, dbVars, cmd, dry_run, outVars, clockVars, schedVars, libVars, done, newsVars>>

\* briefing_path.write_text(briefing or "(No briefing generated)");
\* if dry_run: print(...); return
RdWrite ==
    /\ pc = "rd_write"
    /\ digests' = digests \cup {"briefing"}
    /\ IF dry_run THEN /\ log' = log \o <<"write_digest", "print">>
                       /\ Exit("0")
                  ELSE /\ Logged("write_digest")
                       /\ Goto("rd_pr")
    /\ UNCHANGED <<selVars, dbVars, cmd, dry_run, prs, clockVars, schedVars, libVars, done, newsVars>>

\* pr_url = create_pr(...); if pr_url: _save_weekly_buffer([])
RdCreatePrClearAnyway ==
    /\ pc = "rd_pr"
    /\ \E url \in BOOLEAN :
          /\ prs' = IF url THEN prs \cup {"briefing"} ELSE prs
          /\ Logged(IF url THEN "create_pr" ELSE "create_pr_failed")
    /\ SaveWeekly(<<>>, "rd_done")
    /\ UNCHANGED <<selVars, db_file, seen, call, ncalls, saving, db_at_load, db_at_save,
                   cmd, dry_run, digests, clockVars, schedVars, libVars, done, newsFiles, aseen,
                   all_articles, new_articles, buffer>>
RdCreatePr ==
    /\ pc = "rd_pr"
    /\ \E url \in BOOLEAN :
          IF url
          THEN /\ prs' = prs \cup {"briefing"}
               /\ Logged("create_pr")
               /\ SaveWeekly(<<>>, "rd_done")
          ELSE /\ Logged("create_pr_failed")
               /\ Exit("0")
               /\ UNCHANGED <<prs, wb_arg, ret>>
    /\ UNCHANGED <<selVars, db_file, seen, call, ncalls, saving, db_at_load, db_at_save,
                   cmd, dry_run, digests, clockVars, schedVars, libVars, done, newsFiles, aseen,
                   all_articles, new_articles, buffer>>

RdDone ==
    /\ pc = "rd_done"
    /\ Exit("0")
    /\ UNCHANGED <<selVars, dbVars, runVars, outVars, clockVars, schedVars, libVars, done, newsVars>>

RunDigest == RdLoad \/ RdBriefing \/ RdWrite \/ RdCreatePr \/ RdDone

\* ---------------------------------------------------------- paper ids
\* A URL is the sequence of its pieces, "/" being a piece of its own; the
\* last path segment of an arXiv URL is the paper's number, followed by a
\* version piece when the URL carries one.
ArxivNumbers == {"2401.12345", "2602.15995"}
Versions == {<<>>, <<"v1">>, <<"v2">>}
Url(scheme, host, number, version) ==
    <<scheme, "/", "/", host, "/", "abs", "/", number>> \o version
ArxivUrls(number) ==
    {Url(sc, h, number, v) : sc \in {"http:", "https:"},
                             h \in {"arxiv.org", "export.arxiv.org"}, v \in Versions}

\* The index of the last "/" of s, 0 when there is none.
LastSlash(s) ==
    IF \E i \in 1..Len(s) : s[i] = "/"
    THEN CHOOSE i \in 1..Len(s) : s[i] = "/" /\ \A j \in (i + 1)..Len(s) : s[j] # "/"
    ELSE 0

\* s.rsplit("/", 1)[-1]
AfterLastSlash(s) == SubSeq(s, LastSlash(s) + 1, Len(s))

\* parts = link.rsplit("/", 1); parts[-1] if len(parts) > 1 else link
extract_paper_id_from_link(link) ==
    IF LastSlash(link) > 0 THEN AfterLastSlash(link) ELSE link

\* _parse_arxiv_response: id_text.rsplit("/", 1)[-1] if id_text else ""
api_paper_id(id_text) ==
    IF id_text # <<>> THEN AfterLastSlash(id_text) ELSE <<>>

\* ------------------------------------------------------- paper_fetcher
\* A paper as the parsers build it: category and category_ja empty. The
\* published field orders papers; p2 and p3 carry the same value.
PublishedOf == [id \in PaperIds |-> IF id = "p1" THEN 2 ELSE 1]
RawPaper(id) ==
    [paper_id |-> id, published |-> PublishedOf[id], category |-> "", category_ja |-> ""]

\* What one HTTP request comes back with: "error" when urlopen, read or
\* decode raises, "malformed" for a body that is not well-formed XML, "ok"
\* for a body the parser turns into papers.
Reply(kind, ps) == [kind |-> kind, papers |-> ps]
Feeds == {[i \in 1..Len(ids) |-> RawPaper(ids[i])] : ids \in SeqsUpTo(PaperIds, MaxFeed)}
Replies ==
    {Reply("error", <<>>), Reply("malformed", <<>>)} \cup {Reply("ok", f) : f \in Feeds}

\* Something the function did to the outside: a request, a sleep of lo..hi
\* seconds, a call of another fetch function.
Event(op, what, lo, hi) == [op |-> op, what |-> what, lo |-> lo, hi |-> hi]
Returned(e, v, eff) == [exc |-> e, data |-> v, effects |-> eff]

\* for p in papers: if p.paper_id not in seen_ids: seen_ids.add(...); all_papers.append(p)
AddAll(ps, all_papers, ids) == [all_papers |-> all_papers \o ps, seen_ids |-> ids]
RECURSIVE AddUnseen(_, _, _)
AddUnseen(ps, all_papers, ids) ==
    IF ps = <<>> THEN [all_papers |-> all_papers, seen_ids |-> ids]
    ELSE IF Head(ps).paper_id \notin ids
         THEN AddUnseen(Tail(ps), Append(all_papers, Head(ps)),
                        ids \cup {Head(ps).paper_id})
         ELSE AddUnseen(Tail(ps), all_papers, ids)

\* for code in rss_codes: try: ... except Exception: logger.warning(...)
RECURSIVE FetchRssLoop(_, _, _, _)
FetchRssLoop(replies, i, all_papers, ids) ==
    IF i > Len(replies) THEN all_papers
    ELSE IF replies[i].kind = "ok"
         THEN LET r == AddUnseen(replies[i].papers, all_papers, ids)
              IN  FetchRssLoop(replies, i + 1, r.all_papers, r.seen_ids)
         ELSE FetchRssLoop(replies, i + 1, all_papers, ids)

\* fetch_rss(rss_codes), replies[i] being the reply to the request for
\* rss_codes[i].
fetch_rss(rss_codes, replies) ==
    Returned("none", FetchRssLoop(replies, 1, <<>>, {}),
             [i \in 1..Len(rss_codes) |-> Event("request", rss_codes[i], 0, 0)])

\* 2 ** n
RECURSIVE Pow2(_)
Pow2(n) == IF n <= 0 THEN 1 ELSE 2 * Pow2(n - 1)

\* wait = min(base * (2 ** attempt) + random.uniform(0, base), 120)
BackoffUncapped(attempt) ==
    Event("sleep", "backoff", BackoffBase * Pow2(attempt),
          BackoffBase * Pow2(attempt) + BackoffBase)
Backoff(attempt) ==
    Event("sleep", "backoff", Min(BackoffBase * Pow2(attempt), BackoffCap),
          Min(BackoffBase * Pow2(attempt) + BackoffBase, BackoffCap))

\* for attempt in range(max_retries): how the loop is left, and with what.
RECURSIVE Attempts(_, _, _, _)
Attempts(max_retries, replies, attempt, eff) ==
    IF attempt >= max_retries
    THEN [left |-> "exhausted", reply |-> Reply("error", <<>>), effects |-> eff]
    ELSE LET r == replies[attempt + 1]
             eff1 == Append(eff, Event("request", "api", attempt, attempt))
         IN  IF r.kind # "error"
             THEN [left |-> "break", reply |-> r, effects |-> eff1]
             ELSE IF attempt < max_retries - 1
                  THEN Attempts(max_retries, replies, attempt + 1,
                                Append(eff1, Backoff(attempt)))
                  ELSE [left |-> "return", reply |-> r, effects |-> eff1]

\* search_arxiv(query, max_retries=max_retries): the parse of xml_text
\* follows the loop, outside the try.
search_arxiv(max_retries, replies) ==
    LET a == Attempts(max_retries, replies, 0,
                      <<Event("sleep", "rate_limit", RateLimitWait, RateLimitWait)>>)
    IN  CASE a.left = "return" -> Returned("none", <<>>, a.effects)
          [] a.left = "exhausted" -> Returned("UnboundLocalError", <<>>, a.effects)
          [] a.reply.kind = "malformed" -> Returned("ParseError", <<>>, a.effects)
          [] OTHER -> Returned("none", a.reply.papers, a.effects)

\* fetch_paper_metadata(paper_id): the whole body is inside the try. The
\* value is <<>> for None and <<paper>> for a Paper.
fetch_paper_metadata(paper_id, reply) ==
    Returned("none",
             IF reply.kind = "ok" /\ reply.papers # <<>> THEN <<reply.papers[1]>> ELSE <<>>,
             <<Event("sleep", "rate_limit", RateLimitWait, RateLimitWait),
               Event("request", paper_id, 0, 0)>>)

\* A paper with the fields enrich_paper reads and writes, and those the
\* caller relies on. pdf_url is "None", "" or a URL; text is the sequence of
\* its characters.
Paper(id, title, url, category, abstract, authors, pdf_url) ==
    [paper_id |-> id, title |-> title, url |-> url, category |-> category,
     abstract |-> abstract, authors |-> authors, pdf_url |-> pdf_url]
NoUrl == {"None", ""}

\* enrich_paper(paper): paper is changed in place and returned; "is" tells
\* which object the function returns.
enrich_paper_overwrite(p, reply) ==
    LET r == fetch_paper_metadata(p.paper_id, reply)
    IN  Returned("none",
                 [is |-> "paper",
                  paper |-> IF r.data # <<>>
                            THEN [p EXCEPT !.abstract = r.data[1].abstract,
                                           !.authors = r.data[1].authors,
                                           !.pdf_url = r.data[1].pdf_url]
                            ELSE p],
                 r.effects)
enrich_paper(p, reply) ==
    LET r == fetch_paper_metadata(p.paper_id, reply)
        full == r.data[1]
        p1 == [p EXCEPT !.abstract = full.abstract]
        p2 == IF full.authors # <<>> /\ Len(full.authors) > Len(p1.authors)
              THEN [p1 EXCEPT !.authors = full.authors] ELSE p1
        p3 == IF full.pdf_url \notin NoUrl /\ p2.pdf_url \in NoUrl
              THEN [p2 EXCEPT !.pdf_url = full.pdf_url] ELSE p2
    IN  Returned("none",
                 [is |-> "paper",
                  paper |-> IF r.data # <<>> /\ Len(full.abstract) > Len(p.abstract)
                            THEN p3 ELSE p],
                 r.effects)

\* PAPER_CATEGORIES
Categories == {"distributed_systems", "security", "ai", "cloud"}
RssCodesOf(category) ==
    CASE category = "distributed_systems" -> <<"cs.DC">>
      [] category = "security" -> <<"cs.CR">>
      [] category = "ai" -> <<"cs.AI", "cs.LG">>
      [] category = "cloud" -> <<"cs.NI", "cs.SE">>
NameJaOf(category) == <<"name_ja", category>>

\* CATEGORY_ORDER
CATEGORY_ORDER == <<"distributed_systems", "security", "ai", "cloud">>

\* The calendar of datetime: a date is a year, a month and a day.
Leap(year) == year % 4 = 0 /\ (year % 100 # 0 \/ year % 400 = 0)
MonthDays(year, month) ==
    CASE month = 2 -> IF Leap(year) THEN 29 ELSE 28
      [] month \in {4, 6, 9, 11} -> 30
      [] OTHER -> 31
Date(y, m, d) == [year |-> y, month |-> m, day |-> d]
NextDay(date) ==
    IF date.day < MonthDays(date.year, date.month)
    THEN Date(date.year, date.month, date.day + 1)
    ELSE IF date.month < 12 THEN Date(date.year, date.month + 1, 1)
    ELSE Date(date.year + 1, 1, 1)

\* date.timetuple().tm_yday: 1 for 1 January.
RECURSIVE DaysBefore(_, _)
DaysBefore(year, month) ==
    IF month <= 1 THEN 0 ELSE DaysBefore(year, month - 1) + MonthDays(year, month - 1)
tm_yday(date) == DaysBefore(date.year, date.month) + date.day

\* get_todays_category(date)
get_todays_category(date) ==
    LET day_of_year == tm_yday(date)
        index == day_of_year % 4
    IN  CATEGORY_ORDER[index + 1]

\* papers.sort(key=lambda p: p.published, reverse=True): a stable sort.
RECURSIVE InsertByPublished(_, _)
InsertByPublished(p, sorted) ==
    IF sorted = <<>> THEN <<p>>
    ELSE IF Head(sorted).published >= p.published
         THEN <<Head(sorted)>> \o InsertByPublished(p, Tail(sorted))
         ELSE <<p>> \o sorted
RECURSIVE SortByPublished(_, _)
SortByPublished(ps, sorted) ==
    IF ps = <<>> THEN sorted
    ELSE SortByPublished(Tail(ps), InsertByPublished(Head(ps), sorted))

\* if not papers: papers = search_arxiv(query)
FallsBackAlways(ps) == TRUE
FallsBack(ps) == ps = <<>>

\* fetch_papers_for_category(category)
fetch_papers_for_category(category, rss_replies, api_replies) ==
    LET rss == fetch_rss(RssCodesOf(category), rss_replies)
        api == search_arxiv(DefaultMaxRetries, api_replies)
        eff == <<Event("call", "fetch_rss", 0, 0)>> \o rss.effects \o
               (IF FallsBack(rss.data)
                THEN <<Event("call", "search_arxiv", 0, 0)>> \o api.effects ELSE <<>>)
        ps == IF FallsBack(rss.data) THEN api.data ELSE rss.data
        set == [i \in 1..Len(ps) |->
                    [ps[i] EXCEPT !.category = category,
                                  !.category_ja = NameJaOf(category)]]
    IN  IF FallsBack(rss.data) /\ api.exc # "none"
        THEN Returned(api.exc, <<>>, eff)
        ELSE Returned("none", SortByPublished(set, <<>>), eff)

\* ------------------------------------------- specification: select_paper
InitSelect ==
    /\ papers \in SeqsUpTo(PaperIds, MaxCands)
    /\ seen_ids \in SUBSET PaperIds
    /\ top_k \in (0 - MaxTopK)..MaxTopK
    /\ paper = Unset
    /\ pc = "call"
    /\ db_file = MissingFile /\ seen = {} /\ call = NoCall
    /\ ncalls = 0 /\ ret = "" /\ saving = FALSE
    /\ db_at_load = MissingFile /\ db_at_save = MissingFile
    /\ exc = "none" /\ exit_code = "running"
    /\ cmd = "select" /\ dry_run = FALSE /\ log = <<>>
    /\ digests = {} /\ prs = {}
    /\ now = 0 /\ ticks = 0
    /\ workflow = "paper" /\ runs = 0
    /\ adb_file = MissingFile /\ weekly_file = MissingFile
    /\ aseen = {} /\ all_articles = <<>> /\ new_articles = <<>> /\ buffer = <<>>
    /\ wb_arg = <<>>
    /\ done = <<>>
    /\ args = NoArgs /\ result = NoResult /\ effects = <<>>

CallSelectPaper ==
    /\ pc = "call"
    /\ paper' \in select_paper(papers, seen_ids, top_k)
    /\ pc' = "returned"
    /\ UNCHANGED <<papers, seen_ids, top_k, dbVars, endVars, runVars, outVars, clockVars,
                   newsVars, schedVars, libVars, done>>

NextSelect == CallSelectPaper

SpecSelect == InitSelect /\ [][NextSelect]_vars

\* ----------------------------------------------------- paper_summarizer
\* Text is the sequence of its pieces, " " being whitespace.
RawTexts == {<<>>, <<" ">>, <<"a">>, <<" ", "a", " ">>, <<"a", " ", "b">>}

\* str.strip()
RECURSIVE LStrip(_)
LStrip(t) == IF t # <<>> /\ Head(t) = " " THEN LStrip(Tail(t)) ELSE t
RECURSIVE RStrip(_)
RStrip(t) ==
    IF t # <<>> /\ t[Len(t)] = " " THEN RStrip(SubSeq(t, 1, Len(t) - 1)) ELSE t
Strip(t) == RStrip(LStrip(t))

\* What one request to Gemini comes back with: "error" for anything that
\* raises inside the try (network, JSON, a missing key), "ok" with the text.
GeminiReply(kind, text) == [kind |-> kind, text |-> text]
GeminiErrors(k) == [i \in 1..k |-> GeminiReply("error", <<>>)]
GeminiReplies(max_retries) ==
    {GeminiErrors(k) \o <<GeminiReply("ok", t)>> : k \in 0..max_retries, t \in RawTexts}
        \cup {GeminiErrors(max_retries + 1)}

\* call_gemini returns str | None
GeminiNone == [none |-> TRUE, text |-> <<>>]
GeminiText(t) == [none |-> FALSE, text |-> t]

\* for attempt in range(max_retries + 1): ...; return None
RECURSIVE GeminiAttempts(_, _, _, _)
GeminiAttempts(max_retries, replies, attempt, eff) ==
    IF attempt > max_retries THEN Returned("none", GeminiNone, eff)
    ELSE LET r == replies[attempt + 1]
             eff1 == Append(eff, Event("request", "gemini", attempt, attempt))
         IN  IF r.kind = "ok"
             THEN Returned("none", GeminiText(Strip(r.text)), eff1)
             ELSE GeminiAttempts(max_retries, replies, attempt + 1,
                    IF attempt < max_retries
                    THEN Append(eff1, Event("sleep", "retry", GeminiDelayStep * (attempt + 1),
                                            GeminiDelayStep * (attempt + 1)))
                    ELSE eff1)

call_gemini_no_retry(max_retries, replies) == GeminiAttempts(0, replies, 0, <<>>)
call_gemini(max_retries, replies) == GeminiAttempts(max_retries, replies, 0, <<>>)

\* if not api_key / if not stage1 / if not stage2
FalsyNoneOnly(x) == x.none
Falsy(x) == x.none \/ x.text = <<>>

\* _fallback_summary(paper): the template around the abstract cut to 300
\* characters, or around the title when there is no abstract.
fallback_summary(p) ==
    <<"fallback_template", p.category_ja,
      IF p.abstract_len = 0 THEN p.title ELSE "abstract">>
        \o (IF p.abstract_len > FallbackAbstractLimit THEN <<"...">> ELSE <<>>)

\* _STAGE1_PROMPT.format(**fmt_args) / _STAGE2_PROMPT.format(**fmt_args, stage1_summary=stage1)
Prompt(stage, p, pdf_text, stage1) ==
    [stage |-> stage, title |-> p.title, pdf_text |-> pdf_text, stage1_summary |-> stage1]

\* summarize_paper(paper, api_key)
summarize_paper(p, api_key, pdf_text, replies1, replies2) ==
    IF api_key \in {"None", ""} THEN Returned("none", fallback_summary(p), <<>>)
    ELSE LET text == IF p.pdf_url THEN pdf_text ELSE <<>>
             eff0 == IF p.pdf_url THEN <<Event("request", "pdf", 0, 0)>> ELSE <<>>
             g1 == call_gemini(DefaultGeminiRetries, replies1)
             eff1 == eff0 \o <<Event("call_gemini", Prompt(1, p, text, <<>>), 0, 0)>>
                          \o g1.effects
             g2 == call_gemini(DefaultGeminiRetries, replies2)
             eff2 == eff1 \o <<Event("call_gemini", Prompt(2, p, text, g1.data.text), 0, 0)>>
                          \o g2.effects
         IN  IF Falsy(g1.data) THEN Returned("none", fallback_summary(p), eff1)
             ELSE IF Falsy(g2.data) THEN Returned("none", g1.data.text, eff2)
             ELSE Returned("none", g1.data.text \o <<"\n", "\n">> \o g2.data.text, eff2)

\* The function returns, or raises, to its caller.
Return(r) ==
    /\ result' = r
    /\ effects' = r.effects
    /\ pc' = "returned"
    /\ UNCHANGED <<args, selVars, dbVars, endVars, runVars, outVars, clockVars, newsVars,
                   schedVars, done>>

\* ------------------------------------- specification: paper_summarizer
SummarizePaperCall ==
    \E key \in {"None", "", "key"}, url \in BOOLEAN,
       len \in {0, FallbackAbstractLimit, FallbackAbstractLimit + 1} :
        \E pdf \in (IF url THEN {<<>>, <<"pdf">>} ELSE {<<>>}),
           r1 \in GeminiReplies(DefaultGeminiRetries),
           r2 \in GeminiReplies(DefaultGeminiRetries) :
            args = [fn |-> "summarize_paper", api_key |-> key,
                    paper |-> [title |-> "t1", abstract_len |-> len, pdf_url |-> url,
                               category_ja |-> NameJaOf("ai")],
                    pdf_text |-> pdf, replies1 |-> r1, replies2 |-> r2]

CallGeminiCall ==
    \E n \in (-1)..MaxGeminiRetries :
        \E rs \in GeminiReplies(n) :
            args = [fn |-> "call_gemini", max_retries |-> n, replies |-> rs]

InitSummarize ==
    /\ SummarizePaperCall \/ CallGeminiCall
    /\ result = NoResult /\ effects = <<>>
    /\ pc = "call"
    /\ cmd = "summarize" /\ dry_run = FALSE /\ log = <<>>
    /\ papers = <<>> /\ seen_ids = {} /\ top_k = DefaultTopK /\ paper = Unset
    /\ db_file = MissingFile /\ seen = {} /\ call = NoCall
    /\ ncalls = 0 /\ ret = "" /\ saving = FALSE
    /\ db_at_load = MissingFile /\ db_at_save = MissingFile
    /\ exc = "none" /\ exit_code = "running"
    /\ digests = {} /\ prs = {}
    /\ now = 0 /\ ticks = 0
    /\ workflow = "paper" /\ runs = 0
    /\ adb_file = MissingFile /\ weekly_file = MissingFile
    /\ aseen = {} /\ all_articles = <<>> /\ new_articles = <<>> /\ buffer = <<>>
    /\ wb_arg = <<>> /\ done = <<>>

CallSummarizePaper ==
    /\ pc = "call" /\ args.fn = "summarize_paper"
    /\ Return(summarize_paper(args.paper, args.api_key, args.pdf_text,
                              args.replies1, args.replies2))

CallCallGemini ==
    /\ pc = "call" /\ args.fn = "call_gemini"
    /\ Return(call_gemini(args.max_retries, args.replies))

NextSummarize == CallSummarizePaper \/ CallCallGemini

SpecSummarize == InitSummarize /\ [][NextSummarize]_vars

\* ----------------------------------------- specification: paper_fetcher
\* The replies search_arxiv can consume with max_retries = n: errors up to
\* the first reply that is not one, or n errors.
Errors(k) == [i \in 1..k |-> Reply("error", <<>>)]
ApiReplies(n) ==
    IF n <= 0 THEN {<<>>}
    ELSE {Errors(k) \o <<r>> : k \in 0..(n - 1), r \in Replies \ {Reply("error", <<>>)}}
            \cup {Errors(n)}

\* The first n codes of the configured ones.
RssCodeLists ==
    {SubSeq(<<"cs.AI", "cs.LG", "cs.NI", "cs.SE">>, 1, n) : n \in 0..Min(MaxCodes, 4)}

\* The calls made: the arguments, and the replies of the network.
PaperIdCall ==
    \E n1 \in ArxivNumbers, n2 \in ArxivNumbers :
        \E l \in ArxivUrls(n1), t \in ArxivUrls(n2) :
            args = [fn |-> "paper_id", link |-> l, id_text |-> t, same |-> (n1 = n2)]

FetchRssCall ==
    \E cs \in RssCodeLists :
        \E rs \in [1..Len(cs) -> Replies] :
            args = [fn |-> "fetch_rss", rss_codes |-> cs, replies |-> rs]

SearchArxivCall ==
    \E n \in 0..MaxRetries :
        \E rs \in ApiReplies(n) :
            args = [fn |-> "search_arxiv", max_retries |-> n, replies |-> rs]

FetchPaperMetadataCall ==
    \E id \in PaperIds, r \in Replies :
        args = [fn |-> "fetch_paper_metadata", paper_id |-> id, reply |-> r]

\* When the feeds gave papers the API is not asked; what it would have said
\* is then one of two replies.
FetchPapersForCategoryCall ==
    \E c \in Categories :
        \E rs \in [1..Len(RssCodesOf(c)) -> Replies] :
            \E as \in IF fetch_rss(RssCodesOf(c), rs).data = <<>>
                      THEN ApiReplies(DefaultMaxRetries)
                      ELSE {Errors(DefaultMaxRetries), <<Reply("ok", <<RawPaper("p3")>>)>>} :
                args = [fn |-> "fetch_papers_for_category", category |-> c,
                        rss_replies |-> rs, api_replies |-> as]

\* The papers enrich_paper is called on and the entries the API answers
\* with: abstracts and author lists of several lengths, two of them equal in
\* length and different in content, and every kind of pdf_url.
Abstracts == {<<>>, <<"a">>, <<"b">>, <<"a", "b">>}
AuthorLists == {<<>>, <<"Alice">>, <<"Bob">>, <<"Alice", "Bob">>}
EnrichPaperCall ==
    \E a1 \in Abstracts, l1 \in AuthorLists, u1 \in NoUrl \cup {"pdf_rss"} :
        \/ \E a2 \in Abstracts, l2 \in AuthorLists, u2 \in NoUrl \cup {"pdf_api"} :
              args = [fn |-> "enrich_paper",
                      paper |-> Paper("p1", "t1", "abs/p1", "ai", a1, l1, u1),
                      reply |-> Reply("ok", <<Paper("p1v1", "t2", "abs/p1v1", "", a2, l2, u2)>>)]
        \/ \E r \in {Reply("error", <<>>), Reply("malformed", <<>>), Reply("ok", <<>>)} :
              args = [fn |-> "enrich_paper",
                      paper |-> Paper("p1", "t1", "abs/p1", "ai", a1, l1, u1),
                      reply |-> r]

\* The days get_todays_category is asked about.
GetTodaysCategoryCall ==
    \E y \in FirstYear..(FirstYear + MaxYears - 1), m \in 1..12 :
        \E d \in 1..MonthDays(y, m) :
            args = [fn |-> "get_todays_category", date |-> Date(y, m, d)]

InitFetch ==
    /\ \/ PaperIdCall \/ FetchRssCall \/ SearchArxivCall \/ FetchPaperMetadataCall
       \/ FetchPapersForCategoryCall \/ GetTodaysCategoryCall \/ EnrichPaperCall
    /\ result = NoResult /\ effects = <<>>
    /\ pc = "call"
    /\ cmd = "fetch" /\ dry_run = FALSE /\ log = <<>>
    /\ papers = <<>> /\ seen_ids = {} /\ top_k = DefaultTopK /\ paper = Unset
    /\ db_file = MissingFile /\ seen = {} /\ call = NoCall
    /\ ncalls = 0 /\ ret = "" /\ saving = FALSE
    /\ db_at_load = MissingFile /\ db_at_save = MissingFile
    /\ exc = "none" /\ exit_code = "running"
    /\ digests = {} /\ prs = {}
    /\ now = 0 /\ ticks = 0
    /\ workflow = "paper" /\ runs = 0
    /\ adb_file = MissingFile /\ weekly_file = MissingFile
    /\ aseen = {} /\ all_articles = <<>> /\ new_articles = <<>> /\ buffer = <<>>
    /\ wb_arg = <<>> /\ done = <<>>

CallPaperIds ==
    /\ pc = "call" /\ args.fn = "paper_id"
    /\ Return(Returned("none", [rss |-> extract_paper_id_from_link(args.link),
                                api |-> api_paper_id(args.id_text)], <<>>))

CallFetchRss ==
    /\ pc = "call" /\ args.fn = "fetch_rss"
    /\ Return(fetch_rss(args.rss_codes, args.replies))

CallSearchArxiv ==
    /\ pc = "call" /\ args.fn = "search_arxiv"
    /\ Return(search_arxiv(args.max_retries, args.replies))

CallFetchPaperMetadata ==
    /\ pc = "call" /\ args.fn = "fetch_paper_metadata"
    /\ Return(fetch_paper_metadata(args.paper_id, args.reply))

CallFetchPapersForCategory ==
    /\ pc = "call" /\ args.fn = "fetch_papers_for_category"
    /\ Return(fetch_papers_for_category(args.category, args.rss_replies, args.api_replies))

\* The function is called on the date and on the three days that follow it,
\* twice on the date itself.
CallGetTodaysCategory ==
    /\ pc = "call" /\ args.fn = "get_todays_category"
    /\ LET d1 == NextDay(args.date)
           d2 == NextDay(d1)
           d3 == NextDay(d2)
       IN  Return(Returned("none",
                           [days |-> <<get_todays_category(args.date),
                                       get_todays_category(d1),
                                       get_todays_category(d2),
                                       get_todays_category(d3)>>,
                            again |-> get_todays_category(args.date)],
                           <<>>))

CallEnrichPaper ==
    /\ pc = "call" /\ args.fn = "enrich_paper"
    /\ Return(enrich_paper(args.paper, args.reply))

NextFetch ==
    \/ CallPaperIds \/ CallFetchRss \/ CallSearchArxiv \/ CallFetchPaperMetadata
    \/ CallFetchPapersForCategory \/ CallGetTodaysCategory \/ CallEnrichPaper

SpecFetch == InitFetch /\ [][NextFetch]_vars

\* ------------------------------------------------ specification: the store
\* The store files a behaviour starts from: every kind of unusable file, the
\* empty object, the objects of one entry of every shape, and those of a
\* well-formed entry beside an entry of every shape, all written at time 0.
InitMappings ==
    {{}} \cup {{Entry(id, "t1", sh, 0)} : id \in PaperIds, sh \in Shapes}
         \cup {{Entry("p1", "t1", "ok", 0), Entry(id, "t1", sh, 0)} :
                    id \in PaperIds \ {"p1"}, sh \in Shapes}

InitFiles ==
    {File(k, {}) : k \in {"missing", "unreadable", "not_utf8", "bad_json", "not_dict"}}
        \cup {File("dict", m) : m \in InitMappings}

InitStore ==
    /\ db_file \in InitFiles
    /\ seen = {} /\ call = NoCall /\ ncalls = 0
    /\ ret = "" /\ saving = FALSE
    /\ db_at_load = db_file /\ db_at_save = db_file
    /\ exc = "none" /\ exit_code = "running"
    /\ cmd = "none" /\ dry_run = FALSE /\ log = <<>>
    /\ digests = {} /\ prs = {}
    /\ now = 0 /\ ticks = 0
    /\ pc = "idle"
    /\ papers = <<>> /\ seen_ids = {} /\ top_k = DefaultTopK /\ paper = Unset
    /\ workflow = "paper" /\ runs = 0
    /\ adb_file = MissingFile /\ weekly_file = MissingFile
    /\ aseen = {} /\ all_articles = <<>> /\ new_articles = <<>> /\ buffer = <<>>
    /\ wb_arg = <<>>
    /\ done = <<>>
    /\ args = NoArgs /\ result = NoResult /\ effects = <<>>

\* One process: the client of the class, or run_paper.
NextStore ==
    \/ (pc = "idle" /\ ApiStart)
    \/ ApiConstruct \/ ApiPrune \/ ApiMarkSeen \/ ApiIsSeen \/ ApiGetSeenIds
    \/ ApiSave \/ ApiExit
    \/ (pc = "idle" /\ RpStart)
    \/ RunPaper
    \/ SaveOpen \/ SaveFlush \/ SaveClose
    \/ Crash
    \/ (pc # "stopped" /\ Tick)

SpecStore == InitStore /\ [][NextStore]_vars

\* --------------------------------------------- specification: the runs
\* The scheduled workflows: "paper" starts run_paper, "news" starts
\* run_collect and run_digest; the two share no file. A behaviour follows one
\* workflow from the files it finds, one process at a time. A tick is a
\* large part of a day and a run lasts seconds: the clock advances between
\* runs.
StartTimes == {0, (PaperWindowDays + 1) * TicksPerDay - 1}

\* The paper stores the runs start from: no usable file, the empty object,
\* and objects written at time 0 by earlier runs, one of them with an entry
\* that lost its timestamp and one with a timestamp without timezone.
InitPaperStores ==
    {File(k, {}) : k \in {"missing", "bad_json", "not_utf8"}}
        \cup {File("dict", m) : m \in
                {{}, {Entry("p1", "t1", "ok", 0)},
                 {Entry("p1", "t1", "ok", 0), Entry("p2", "t1", "ok", 0)},
                 {Entry("p1", "t1", "ok", 0), Entry("p2", "t1", "no_seen_at", 0)},
                 {Entry("p1", "t1", "naive", 0)}}}

InitArticleStores ==
    {File(k, {}) : k \in {"missing", "bad_json"}}
        \cup {File("dict", {ArticleEntry(a, 0) : a \in S}) : S \in SUBSET ArticleIds}

InitWeekly ==
    {File(k, <<>>) : k \in {"missing", "bad_json", "not_utf8"}}
        \cup {File("list", <<>>), File("list", <<"a1">>)}

Init ==
    /\ workflow \in {"paper", "news"}
    /\ IF workflow = "paper"
       THEN /\ db_file \in InitPaperStores
            /\ now \in StartTimes
            /\ adb_file = MissingFile /\ weekly_file = MissingFile
       ELSE /\ db_file = MissingFile
            /\ now = 0
            /\ adb_file \in InitArticleStores /\ weekly_file \in InitWeekly
    /\ seen = {} /\ call = NoCall /\ ncalls = 0
    /\ ret = "" /\ saving = FALSE
    /\ db_at_load = db_file /\ db_at_save = db_file
    /\ exc = "none" /\ exit_code = "running"
    /\ cmd = "none" /\ dry_run = FALSE /\ log = <<>>
    /\ digests = {} /\ prs = {}
    /\ ticks = 0 /\ runs = 0
    /\ pc = "idle"
    /\ papers = <<>> /\ seen_ids = {} /\ top_k = DefaultTopK /\ paper = Unset
    /\ aseen = {} /\ all_articles = <<>> /\ new_articles = <<>> /\ buffer = <<>>
    /\ wb_arg = <<>>
    /\ done = <<>>
    /\ args = NoArgs /\ result = NoResult /\ effects = <<>>

Next ==
    \/ (workflow = "paper" /\ runs < MaxRuns /\ RpStart)
    \/ RunPaper
    \/ SaveOpen \/ SaveFlush \/ SaveClose
    \/ (workflow = "news" /\ runs < MaxRuns /\ RcStart)
    \/ RunCollect
    \/ (workflow = "news" /\ runs < MaxRuns /\ RdStart)
    \/ RunDigest
    \/ WbOpen \/ WbClose
    \/ Crash
    \/ (pc \in {"idle", "stopped"} /\ Tick)

Spec == Init /\ [][Next]_vars

\* ------------------------------------------------------------- claims
Unseen == Candidates(papers, seen_ids)
InList(id, s) == \E i \in 1..Len(s) : s[i] = id

\* C1: for top_k >= 1, select_paper returns None exactly when no candidate
\* is outside the seen set, and otherwise a candidate whose paper_id is not
\* in the seen set.
C1_NeverSeen ==
    (pc = "returned" /\ top_k >= 1) =>
        /\ (paper = None) <=> (\A i \in 1..Len(papers) : papers[i] \in seen_ids)
        /\ paper # None =>
            /\ paper.kind = "paper"
            /\ InList(paper.paper_id, papers)
            /\ paper.paper_id \notin seen_ids

C1_Witness ==
    /\ pc = "returned" /\ top_k >= 1
    /\ paper.kind = "paper"
    /\ \E i \in 1..Len(papers) : papers[i] \in seen_ids

\* C2: for top_k >= 1, a non-None result is one of the first min(top_k, n)
\* unseen candidates in their original order; fewer than top_k unseen
\* candidates is not a failure, and top_k = 1 gives the first unseen one.
C2_PoolBound ==
    (pc = "returned" /\ top_k >= 1 /\ paper # None) =>
        /\ paper.kind = "paper"
        /\ paper.pos \in 1..Min(top_k, Len(Unseen))
        /\ paper.paper_id = Unseen[paper.pos]
        /\ top_k = 1 => paper.paper_id = Unseen[1]

C2_Witness ==
    /\ pc = "returned" /\ paper.kind = "paper"
    /\ top_k >= 1 /\ Len(Unseen) > top_k
    /\ paper.pos = top_k

\* C3: a pool size of zero or less acts as pool size 1: with at least one
\* unseen candidate the call returns the first unseen candidate and does not
\* raise.
C3_NonPositivePoolIsOne ==
    (pc = "returned" /\ top_k <= 0 /\ Len(Unseen) > 0) =>
        /\ paper.kind = "paper"
        /\ paper.pos = 1

\* A store call was made by this step.
Called(op) == call'.op = op /\ ncalls' = ncalls + 1

\* C4: after prune(window_days=N) at time now every remaining entry has
\* now - seen_at <= N days as an exact duration, and every removed entry
\* exceeded N days or had a missing or unparseable timestamp.
C4_PruneExactWindow ==
    [][(Called("prune") /\ exc' = "none") =>
          /\ \A e \in seen' :
                e.shape = "ok" /\ call'.t - e.seen_at <= call'.window * TicksPerDay
          /\ \A e \in seen \ seen' :
                e.shape # "ok" \/ call'.t - e.seen_at > call'.window * TicksPerDay]_vars

\* C5: constructing a PaperDeduplicator never raises whatever the store
\* file is, and every file that is not a JSON object yields an empty store.
C5_LoadNeverRaises ==
    call.op = "load" =>
        /\ exc \in {"none", "killed"}
        /\ db_at_load.kind # "dict" => seen = {}

\* C6: on a store loaded from a JSON object, prune completes without raising
\* and removes every entry whose timestamp is missing or unparseable.
C6_PruneNeverRaises ==
    (call.op = "prune" /\ db_at_load.kind = "dict") =>
        /\ exc \in {"none", "killed"}
        /\ \A e \in seen : e.shape = "ok"

\* C7: the store holds at most one entry per paper_id; mark_seen on a present
\* id replaces that entry with the title and time of the call and keeps the
\* number of entries, mark_seen on an absent id adds exactly one entry, and
\* no other entry changes.
C7_MarkSeenUpsert ==
    /\ [](UniqueKeys(seen) /\ UniqueKeys(db_file.data))
    /\ [][Called("mark_seen") =>
            LET made == Entry(call'.paper_id, call'.title, "ok", now)
                others(m) == {e \in m : e.paper_id # call'.paper_id}
            IN  /\ {e \in seen' : e.paper_id = call'.paper_id} = {made}
                /\ others(seen') = others(seen)
                /\ Cardinality(seen') =
                      Cardinality(seen) + (IF call'.paper_id \in Keys(seen) THEN 0 ELSE 1)
                /\ call'.hit = (call'.paper_id \in Keys(seen))]_vars

C7_Witness ==
    /\ call.op = "mark_seen" /\ call.hit
    /\ Cardinality(seen) = 2
    /\ \E e \in seen : e.paper_id = call.paper_id /\ e.title = "t2" /\ e.seen_at > 0
    /\ \E e \in db_at_load.data : e.paper_id = call.paper_id /\ e.title = "t1"

\* C8: the store file changes only inside save(): no step of prune,
\* mark_seen, is_seen or get_seen_ids (nor any other step outside save)
\* changes it, so a process that has not entered save leaves the file as it
\* was when loaded.
C8_FileChangesOnlyInSave ==
    /\ [][db_file' # db_file => pc \in SavePcs]_vars
    /\ [](~saving => db_file = db_at_load)

\* run_paper stopped with status 1 because every candidate was seen, after
\* prune had removed an entry in memory.
C8_Witness ==
    /\ cmd = "paper" /\ pc = "stopped" /\ exit_code = "1" /\ paper = None
    /\ ~saving
    /\ seen # db_at_load.data
    /\ db_file = db_at_load /\ db_file.kind = "dict"

\* C9: save() is all-or-nothing: during and after a save the store file is
\* never an empty or partially written document, and while the save runs it
\* is the complete old file or the complete new mapping.
C9_SaveAllOrNothing ==
    saving =>
        /\ db_file.kind \notin {"truncated", "partial"}
        /\ pc \in SavePcs => db_file \in {db_at_save, File("dict", seen)}

\* The fetch stage of the running command came back empty.
FetchedNothing ==
    /\ Len(log) >= 1 /\ log[1] = "fetch"
    /\ \/ cmd = "paper" /\ papers = <<>>
       \/ cmd = "collect" /\ all_articles = <<>>

\* C10: when the fetch stage yields nothing, run_collect and run_paper exit
\* with a non-zero status, having neither loaded, pruned nor saved the
\* seen-store, written a digest file, touched the weekly buffer, nor called
\* the summarizer or create_pr.
C10_EmptyFetchIsFatal ==
    /\ [](FetchedNothing =>
            /\ pc = "stopped" /\ exit_code = "1" /\ exc = "none"
            /\ log = <<"fetch">>
            /\ ncalls = 0 /\ ~saving /\ seen = {} /\ aseen = {})
    /\ [][FetchedNothing' =>
            UNCHANGED <<db_file, adb_file, weekly_file, digests, prs>>]_vars

C10_Witness ==
    /\ FetchedNothing /\ cmd = "collect"
    /\ pc = "stopped" /\ exit_code = "1"
    /\ adb_file.kind = "dict" /\ adb_file.data # {}
    /\ weekly_file = File("list", <<"a1">>)

\* The run found nothing new after a fetch that returned something.
NothingNew ==
    \/ cmd = "paper" /\ InList("select", log) /\ paper = None
    \/ cmd = "collect" /\ InList("filter", log) /\ new_articles = <<>>

\* C11: a run that finds nothing new after a non-empty fetch ends with the
\* store it pruned saved to the store file, and with no digest file written,
\* nothing appended to the weekly buffer and no pull request created.
C11_NothingNewStillSaves ==
    (NothingNew /\ pc = "stopped" /\ exc = "none") =>
        /\ cmd = "paper" => db_file = File("dict", seen)
        /\ cmd = "collect" => adb_file = File("dict", aseen)
        /\ ~InList("write_digest", log)
        /\ ~InList("save_buffer", log)
        /\ ~InList("create_pr", log)

\* run_paper has selected, and every fetched candidate was in the seen set.
AllSeen ==
    /\ cmd = "paper" /\ InList("select", log)
    /\ \A i \in 1..Len(papers) : papers[i] \in seen_ids

\* C12: when every fetched candidate is in the seen set, select_paper
\* returns None without raising, and run_paper exits with status 1 having
\* neither summarized, written a digest, marked a paper seen, saved, nor
\* called create_pr.
C12_AllSeenIsFatal ==
    /\ [](AllSeen =>
            /\ paper = None
            /\ pc = "stopped" /\ exit_code = "1" /\ exc = "none"
            /\ log = <<"fetch", "load", "prune", "select">>
            /\ call.op = "get_seen_ids" /\ ~saving)
    /\ [][AllSeen' => UNCHANGED <<db_file, seen, digests, prs>>]_vars

C12_Witness ==
    /\ AllSeen /\ pc = "stopped" /\ exit_code = "1"
    /\ papers = <<"p1", "p2">> /\ seen_ids = {"p1", "p2"}
    /\ db_file.kind = "dict"

\* The entry a completed run_paper run wrote for the paper it featured.
Featured(d) == Entry(d.new[1], TitleOf(d.new[1]), "ok", d.at)

\* The store file a run loaded still held the entry of the earlier run d,
\* and the entry is inside the pruning window.
StillRecorded(d) ==
    /\ d.cmd = "paper"
    /\ Featured(d) \in db_at_load.data
    /\ ~Expired(Featured(d), now, PaperWindowDays)

\* C13: a run_paper run whose save completed leaves the paper it featured
\* in the store file; a later run that loads a file still holding that entry
\* inside the window never selects that paper and never marks it again; two
\* completed runs in immediate succession feature different papers.
C13_NoRepeatAcrossRuns ==
    /\ [](pc = "rp_saved" =>
            /\ db_file.kind = "dict"
            /\ \E e \in db_file.data : e.paper_id = paper.paper_id /\ e.shape = "ok")
    /\ [][(pc = "rp_select" /\ paper'.kind = "paper") =>
            \A i \in 1..Len(done) :
                StillRecorded(done[i]) => paper'.paper_id # done[i].new[1]]_vars
    /\ [][(cmd = "paper" /\ Called("mark_seen")) =>
            /\ ~call'.hit
            /\ \A i \in 1..Len(done) :
                  StillRecorded(done[i]) => call'.paper_id # done[i].new[1]]_vars
    /\ [](\A i, j \in 1..Len(done) :
            (/\ done[i].cmd = "paper" /\ done[j].cmd = "paper"
             /\ done[j].run = done[i].run + 1
             /\ Days(done[j].at, done[i].at) <= PaperWindowDays)
                => done[j].new # done[i].new)

C13_Witness ==
    /\ Len(done) = 2
    /\ done[1].cmd = "paper" /\ done[2].cmd = "paper"
    /\ done[2].run = done[1].run + 1
    /\ pc = "stopped" /\ InList("p1", papers) /\ paper.paper_id = "p2"
    /\ done[1].new = <<"p1">> /\ done[2].new = <<"p2">>
    /\ db_file = File("dict", {Featured(done[1]), Featured(done[2])})

\* C14: a run_collect that directly follows a run_collect whose save
\* completed, and fetches the same articles, finds no new article: the first
\* run recorded the articles it processed before it saved.
C14_CollectTwiceFindsNothing ==
    (/\ cmd = "collect" /\ InList("filter", log)
     /\ Len(done) >= 1
     /\ done[Len(done)].cmd = "collect"
     /\ done[Len(done)].run = runs - 1
     /\ done[Len(done)].asked = all_articles
     /\ now - done[Len(done)].at <= DedupWindowDays * TicksPerDay)
        => /\ new_articles = <<>>
           /\ ~InList("write_digest", log)
           /\ ~InList("save_buffer", log)

\* The function fn has returned or raised.
Returns(fn) == pc = "returned" /\ args.fn = fn

\* C15: for the same paper, the id taken from the RSS item's link equals
\* the id taken from the API entry's <id> URL, whether or not either URL
\* carries a version suffix.
C15_SamePaperSameId ==
    (Returns("paper_id") /\ args.same) => result.data.rss = result.data.api

\* The papers of the well-formed replies, one after the other.
RECURSIVE Concatenated(_, _)
Concatenated(replies, i) ==
    IF i > Len(replies) THEN <<>>
    ELSE (IF replies[i].kind = "ok" THEN replies[i].papers ELSE <<>>)
            \o Concatenated(replies, i + 1)

\* s without the elements whose paper_id occurs earlier in s.
RECURSIVE FirstOccurrences(_, _)
FirstOccurrences(s, i) ==
    IF i > Len(s) THEN <<>>
    ELSE (IF \E j \in 1..(i - 1) : s[j].paper_id = s[i].paper_id THEN <<>> ELSE <<s[i]>>)
            \o FirstOccurrences(s, i + 1)

\* C16: fetch_rss returns the per-code results one after the other with
\* every later occurrence of a paper_id dropped: each paper_id at most once,
\* in first-occurrence order; the result is determined by the feeds alone
\* and the seen-store is not touched.
C16_FetchRssFirstOccurrences ==
    Returns("fetch_rss") =>
        /\ result.exc = "none"
        /\ result.data = FirstOccurrences(Concatenated(args.replies, 1), 1)
        /\ \A i, j \in 1..Len(result.data) :
              result.data[i].paper_id = result.data[j].paper_id => i = j
        /\ db_file = MissingFile /\ seen = {} /\ ncalls = 0

C16_Witness ==
    /\ Returns("fetch_rss")
    /\ args.replies = <<Reply("ok", <<RawPaper("p1"), RawPaper("p2")>>),
                        Reply("ok", <<RawPaper("p2"), RawPaper("p3")>>)>>
    /\ result.data = <<RawPaper("p1"), RawPaper("p2"), RawPaper("p3")>>

\* C17: fetch_rss, search_arxiv and fetch_paper_metadata never raise,
\* whatever each request comes back with and for every max_retries >= 0;
\* fetch_rss still returns the papers of the codes that succeeded.
C17_FetchNeverRaises ==
    (pc = "returned" /\ args.fn \in {"fetch_rss", "search_arxiv", "fetch_paper_metadata"})
        => /\ result.exc = "none"
           /\ args.fn = "fetch_rss" =>
                \A i \in 1..Len(args.replies) :
                    \A k \in 1..Len(args.replies[i].papers) :
                        \E m \in 1..Len(result.data) :
                            result.data[m].paper_id = args.replies[i].papers[k].paper_id

\* The feeds gave no paper.
RssGaveNothing ==
    \A i \in 1..Len(args.rss_replies) :
        args.rss_replies[i].kind # "ok" \/ args.rss_replies[i].papers = <<>>

\* The calls of fetch functions among the effects, in order.
CallsMade == SelectSeq(effects, LAMBDA e : e.op = "call")

\* C18: fetch_papers_for_category calls fetch_rss first and search_arxiv
\* exactly when the feeds gave no paper, once; the list it returns holds the
\* papers of the source it used, is empty exactly when that source gave
\* nothing, carries the requested category on every paper, and is ordered
\* by published, newest first.
C18_ApiOnlyWhenRssEmpty ==
    Returns("fetch_papers_for_category") =>
        LET source == IF RssGaveNothing
                      THEN search_arxiv(DefaultMaxRetries, args.api_replies).data
                      ELSE FirstOccurrences(Concatenated(args.rss_replies, 1), 1)
            out == result.data
        IN  /\ CallsMade = IF RssGaveNothing
                           THEN <<Event("call", "fetch_rss", 0, 0),
                                  Event("call", "search_arxiv", 0, 0)>>
                           ELSE <<Event("call", "fetch_rss", 0, 0)>>
            /\ result.exc # "none" => RssGaveNothing
            /\ result.exc = "none" =>
                /\ Len(out) = Len(source)
                /\ {out[i].paper_id : i \in 1..Len(out)} =
                      {source[i].paper_id : i \in 1..Len(source)}
                /\ (out = <<>>) <=> (source = <<>>)
                /\ \A i \in 1..Len(out) :
                      /\ out[i].category = args.category
                      /\ out[i].category_ja = NameJaOf(args.category)
                /\ \A i, j \in 1..Len(out) :
                      i < j => out[i].published >= out[j].published

C18_Witness ==
    /\ Returns("fetch_papers_for_category")
    /\ RssGaveNothing /\ args.category = "ai"
    /\ args.rss_replies[1].kind = "error" /\ args.rss_replies[2].kind = "malformed"
    /\ args.api_replies = <<Reply("error", <<>>),
                            Reply("ok", <<RawPaper("p2"), RawPaper("p1")>>)>>
    /\ Len(result.data) = 2
    /\ result.data[1].paper_id = "p1" /\ result.data[2].paper_id = "p2"

\* The calls of call_gemini among the effects, in order.
GeminiCalls == SelectSeq(effects, LAMBDA e : e.op = "call_gemini")

\* C19: summarize_paper always returns a non-empty text. Without an API key
\* it calls Gemini zero times and returns the fallback summary. With a key it
\* calls stage 1 first; when stage 1 gives nothing it returns the fallback
\* summary and never calls stage 2; otherwise it calls stage 2 once, with
\* the stage 1 text in the prompt, and returns stage 1 alone when stage 2
\* gives nothing and stage 1 followed by stage 2 when both give text.
C19_SummarizeStages ==
    Returns("summarize_paper") =>
        LET s1 == call_gemini(DefaultGeminiRetries, args.replies1).data
            s2 == call_gemini(DefaultGeminiRetries, args.replies2).data
            gave(x) == ~x.none /\ x.text # <<>>
        IN  /\ result.exc = "none" /\ result.data # <<>>
            /\ args.api_key \in {"None", ""} =>
                  GeminiCalls = <<>> /\ result.data = fallback_summary(args.paper)
            /\ args.api_key = "key" =>
                /\ Len(GeminiCalls) >= 1 /\ GeminiCalls[1].what.stage = 1
                /\ ~gave(s1) =>
                      Len(GeminiCalls) = 1 /\ result.data = fallback_summary(args.paper)
                /\ gave(s1) =>
                      /\ Len(GeminiCalls) = 2
                      /\ GeminiCalls[2].what.stage = 2
                      /\ GeminiCalls[2].what.stage1_summary = s1.text
                      /\ ~gave(s2) => result.data = s1.text
                      /\ gave(s2) => result.data = s1.text \o <<"\n", "\n">> \o s2.text

C19_Witness ==
    /\ Returns("summarize_paper") /\ args.api_key = "key"
    /\ args.replies1 = <<GeminiReply("error", <<>>), GeminiReply("ok", <<" ", "a", " ">>)>>
    /\ args.replies2 = <<GeminiReply("ok", <<"a", " ", "b">>)>>
    /\ result.data = <<"a", "\n", "\n", "a", " ", "b">>

\* C20: run_collect only appends to the weekly buffer. With a readable
\* buffer file, what it hands to _save_weekly_buffer is the list in the file
\* followed by the new articles in filter_new order, and that list is what
\* the file holds when the save returns; the file changes in no other step,
\* so a run that exits at the fetch or finds nothing new leaves it as it was.
C20_BufferAppendOnly ==
    /\ []((cmd = "collect" /\ pc = "wb_save" /\ weekly_file.kind = "list") =>
            /\ new_articles # <<>>
            /\ wb_arg = weekly_file.data \o new_articles)
    /\ [][(cmd = "collect" /\ pc = "wb_opened" /\ pc' # "stopped") =>
            weekly_file' = File("list", wb_arg)]_vars
    /\ [][(cmd = "collect" /\ cmd' = "collect" /\ weekly_file' # weekly_file) =>
            /\ pc \in {"wb_save", "wb_opened"}
            /\ new_articles # <<>>
            /\ UNCHANGED wb_arg]_vars
    /\ []((cmd = "collect" /\ pc = "stopped" /\ exc = "none" /\ InList("save_buffer", log)) =>
            /\ weekly_file = File("list", wb_arg)
            /\ SubSeq(wb_arg, Len(wb_arg) - Len(new_articles) + 1, Len(wb_arg)) = new_articles)

C20_Witness ==
    /\ cmd = "collect" /\ pc = "stopped" /\ exit_code = "0"
    /\ new_articles = <<"a2", "a1">>
    /\ weekly_file = File("list", <<"a1", "a2", "a1">>)

\* C21: run_digest changes the weekly buffer file only after create_pr has
\* returned a URL, in a run that is not a dry run and loaded a non-empty
\* buffer; and a run that got a URL and ended by itself leaves the empty
\* list in the file.
C21_ClearedIffPublished ==
    [][cmd = "digest" =>
          /\ weekly_file' # weekly_file =>
                InList("create_pr", log) /\ ~dry_run /\ buffer # <<>>
          /\ (pc # "stopped" /\ pc' = "stopped" /\ exit_code' = "0"
                 /\ InList("create_pr", log'))
                => weekly_file' = File("list", <<>>)]_vars

C21_Witness ==
    /\ cmd = "digest" /\ pc = "stopped" /\ exit_code = "0"
    /\ InList("create_pr", log) /\ buffer # <<>>
    /\ weekly_file = File("list", <<>>)

\* C22: a dry run of run_digest or run_paper never reaches create_pr, and
\* one that wrote its artifact and ended by itself printed it.
Publishing == pc \in {"rd_pr", "rp_pr"}
PublishAttempted == InList("create_pr", log) \/ InList("create_pr_failed", log)
C22_DryRunNeverPublishes ==
    (cmd \in {"digest", "paper"} /\ dry_run) =>
        /\ ~Publishing
        /\ ~PublishAttempted
        /\ (pc = "stopped" /\ exit_code = "0" /\ InList("write_digest", log))
              => log[Len(log)] = "print"

C22_Witness ==
    /\ cmd = "paper" /\ dry_run
    /\ pc = "stopped" /\ exit_code = "0"
    /\ InList("write_digest", log) /\ InList("print", log)

\* C23: when create_pr returns no URL the command ends with status 0 and no
\* exception, the file it wrote under digests/ is in place, and after
\* run_paper the store file holds the mapping with the selected paper in it.
PublishFailed == InList("create_pr_failed", log)
C23_PublishFailureNotFatal ==
    (cmd \in {"digest", "paper"} /\ PublishFailed) =>
        /\ pc = "stopped" /\ exit_code = "0" /\ exc = "none"
        /\ cmd = "digest" => "briefing" \in digests
        /\ cmd = "paper" =>
              /\ "paper" \in digests
              /\ db_file.kind = "dict"
              /\ is_seen(db_file.data, paper.paper_id)

C23_Witness ==
    /\ cmd = "paper" /\ PublishFailed
    /\ exit_code = "0" /\ "paper" \in digests
    /\ is_seen(db_file.data, paper.paper_id)

\* C24: a run_paper process goes through fetch, load, prune, select,
\* summarize, write digest, mark_seen, save, and then print (dry run) or
\* create_pr, in this order and each at most once; the store file is not
\* written before the digest was, create_pr is not reached before the
\* store file holds the saved mapping, and the store is loaded once and
\* saved at most once.
PaperStages ==
    <<"fetch", "load", "prune", "select", "summarize", "write_digest", "mark_seen", "save">>
PaperEndings == {"print", "create_pr", "create_pr_failed"}
IsPrefix(s, t) == Len(s) <= Len(t) /\ SubSeq(t, 1, Len(s)) = s
Count(e, s) == Cardinality({i \in 1..Len(s) : s[i] = e})
C24_PaperStageOrder ==
    cmd = "paper" =>
        /\ \E last \in PaperEndings : IsPrefix(log, Append(PaperStages, last))
        /\ InList("print", log) <=> (dry_run /\ pc = "stopped" /\ exit_code = "0")
        /\ (saving \/ db_file # db_at_load) =>
              InList("write_digest", log) /\ "paper" \in digests
        /\ (pc = "rp_pr" \/ PublishAttempted) =>
              /\ ~dry_run
              /\ db_file = File("dict", seen)
              /\ is_seen(seen, paper.paper_id)
        /\ Count("load", log) <= 1 /\ Count("save", log) <= 1
        /\ ncalls <= 5

C24_Witness ==
    /\ cmd = "paper"
    /\ log = Append(PaperStages, "create_pr")
    /\ db_file = File("dict", seen)

\* The requests and the backoff sleeps among the effects, in order, and the
\* failed attempts the replies hold before the first reply that is not one.
Requests == SelectSeq(effects, LAMBDA e : e.op = "request")
Backoffs == SelectSeq(effects, LAMBDA e : e.op = "sleep" /\ e.what = "backoff")
Failures == Cardinality({i \in 1..Len(args.replies) : args.replies[i].kind = "error"})

\* What C25 says of the attempts: at most max_retries requests, none after
\* the first success, the empty list when all failed, a wait after every
\* failed attempt but the last and nothing after the last request.
AttemptsAsClaimed ==
    /\ Len(Requests) = Min(Failures + 1, args.max_retries)
    /\ Len(Requests) <= args.max_retries
    /\ Failures = args.max_retries => result.exc = "none" /\ result.data = <<>>
    /\ Len(Backoffs) = Min(Failures, args.max_retries - 1)
    /\ effects[Len(effects)].op = "request"
    /\ \A i \in 1..Len(effects) :
          effects[i].op = "sleep" /\ effects[i].what = "backoff" =>
              /\ effects[i - 1] = Event("request", "api", (i - 3) \div 2, (i - 3) \div 2)
              /\ effects[i + 1].op = "request"

\* C25 as stated: the wait after the i-th failed attempt lies between 5*2^i
\* and 5*2^i + 5 seconds and does not exceed 120 seconds.
C25_BackoffAsStated ==
    (Returns("search_arxiv") /\ args.max_retries >= 1) =>
        /\ AttemptsAsClaimed
        /\ \A i \in 1..Len(Backoffs) :
              /\ Backoffs[i].lo = 5 * Pow2(i - 1)
              /\ Backoffs[i].hi = 5 * Pow2(i - 1) + 5
              /\ Backoffs[i].hi <= 120

\* C25 (amended): search_arxiv with max_retries >= 1 makes at most
\* max_retries requests, stops at the first success and returns the empty
\* list when all failed; the wait after the i-th failed attempt that is not
\* the last is the smaller of 120 seconds and a value between 5*2^i and
\* 5*2^i + 5 seconds, and there is no wait after the last attempt.
C25_BackoffCapped ==
    (Returns("search_arxiv") /\ args.max_retries >= 1) =>
        /\ AttemptsAsClaimed
        /\ \A i \in 1..Len(Backoffs) :
              /\ Backoffs[i].lo = Min(5 * Pow2(i - 1), 120)
              /\ Backoffs[i].hi = Min(5 * Pow2(i - 1) + 5, 120)
              /\ Backoffs[i].hi <= 120

C25_Witness ==
    /\ Returns("search_arxiv")
    /\ args.max_retries = MaxRetries /\ Failures = MaxRetries
    /\ Len(Backoffs) = MaxRetries - 1
    /\ Backoffs[Len(Backoffs)].lo = 120
    /\ result.data = <<>>

\* The sleeps among the effects, in order.
Sleeps == SelectSeq(effects, LAMBDA e : e.op = "sleep")

\* C26: call_gemini returns without raising after at most max_retries + 1
\* requests: the stripped text of the first successful one, with no request
\* after it, and None exactly when every request failed; it sleeps 5*n
\* seconds after the n-th failed request when another request follows, and
\* makes no sleep after the last request.
C26_CallGeminiBounded ==
    Returns("call_gemini") =>
        LET n == args.max_retries
        IN  /\ result.exc = "none"
            /\ Len(Requests) <= n + 1
            /\ Len(Requests) = Min(Failures + 1, n + 1)
            /\ result.data.none <=> Failures = n + 1
            /\ ~result.data.none =>
                  /\ args.replies[Failures + 1].kind = "ok"
                  /\ result.data.text = Strip(args.replies[Failures + 1].text)
            /\ Len(Sleeps) = Min(Failures, Max(n, 0))
            /\ \A k \in 1..Len(Sleeps) : Sleeps[k].lo = 5 * k /\ Sleeps[k].hi = 5 * k
            /\ \A i \in 1..Len(effects) :
                  IF i % 2 = 1
                  THEN effects[i] = Event("request", "gemini", i \div 2, i \div 2)
                  ELSE effects[i].op = "sleep" /\ i < Len(effects)

C26_Witness ==
    /\ Returns("call_gemini") /\ args.max_retries = DefaultGeminiRetries
    /\ args.replies = <<GeminiReply("error", <<>>), GeminiReply("error", <<>>),
                        GeminiReply("ok", <<"a">>)>>
    /\ effects = <<Event("request", "gemini", 0, 0), Event("sleep", "retry", 5, 5),
                   Event("request", "gemini", 1, 1), Event("sleep", "retry", 10, 10),
                   Event("request", "gemini", 2, 2)>>
    /\ result.data = GeminiText(<<"a">>)

\* The category after c in the rotation, cyclically.
Successor(c) ==
    LET i == CHOOSE k \in 1..Len(CATEGORY_ORDER) : CATEGORY_ORDER[k] = c
    IN  CATEGORY_ORDER[(i % Len(CATEGORY_ORDER)) + 1]

\* C27: on every pair of consecutive calendar days the later day's category
\* is the successor of the earlier day's, so four consecutive days cover the
\* four categories; the category is one of CATEGORY_ORDER and the same for
\* the same date.
C27_RotationEveryDay ==
    Returns("get_todays_category") =>
        LET days == result.data.days
        IN  /\ \A i \in 1..Len(days) : InList(days[i], CATEGORY_ORDER)
            /\ result.data.again = days[1]
            /\ \A i \in 1..(Len(days) - 1) : days[i + 1] = Successor(days[i])
            /\ {days[i] : i \in 1..Len(days)} = Categories

\* What fetch_paper_metadata gave enrich_paper: <<>> for None.
Fetched == fetch_paper_metadata(args.paper.paper_id, args.reply).data

\* C28: enrich_paper returns the paper it was given, with paper_id, title,
\* url and category as they were. The abstract changes only to a fetched
\* abstract that is strictly longer; authors and pdf_url change only when
\* the abstract does, authors only to a strictly longer fetched list and
\* pdf_url only when the paper had none; and when nothing was fetched the
\* paper is unchanged.
C28_EnrichFrame ==
    Returns("enrich_paper") =>
        LET old == args.paper
            new == result.data.paper
            longer == Fetched # <<>> /\ Len(Fetched[1].abstract) > Len(old.abstract)
        IN  /\ result.exc = "none" /\ result.data.is = "paper"
            /\ new.paper_id = old.paper_id /\ new.title = old.title
            /\ new.url = old.url /\ new.category = old.category
            /\ new.abstract = IF longer THEN Fetched[1].abstract ELSE old.abstract
            /\ new.authors # old.authors =>
                  /\ longer
                  /\ new.authors = Fetched[1].authors
                  /\ Len(Fetched[1].authors) > Len(old.authors)
            /\ new.pdf_url # old.pdf_url =>
                  /\ longer
                  /\ new.pdf_url = Fetched[1].pdf_url
                  /\ old.pdf_url \in NoUrl
            /\ Fetched = <<>> => new = old

C28_Witness ==
    /\ Returns("enrich_paper")
    /\ args.paper.abstract = <<"a">> /\ args.reply.papers # <<>>
    /\ result.data.paper.abstract = <<"a", "b">>
    /\ args.paper.authors = <<"Alice">> /\ result.data.paper.authors = <<"Alice", "Bob">>
    /\ args.paper.pdf_url = "pdf_rss" /\ result.data.paper.pdf_url = "pdf_rss"
    /\ args.reply.papers[1].pdf_url = "pdf_api"

\* The store file run_paper leaves, from what the run started with: the file
\* it loaded, the clock and the paper it selected. The flag is no part of it.
StoreAfterRun ==
    File("dict", mark_seen(prune(load(db_at_load).data, now, PaperWindowDays).data,
                           paper.paper_id, TitleOf(paper.paper_id), now))

\* The run before this one was a dry run of run_paper that completed, and
\* the entry it wrote is inside the pruning window.
AfterDryRun ==
    /\ cmd = "paper" /\ Len(done) >= 1
    /\ done[Len(done)].cmd = "paper" /\ done[Len(done)].dry
    /\ done[Len(done)].run = runs - 1
    /\ ~Expired(Featured(done[Len(done)]), now, PaperWindowDays)

\* C29: a run_paper run that selected a paper has, when its save returns,
\* written the same store file whether or not it is a dry run, and nothing
\* after the save writes the file; a dry run that printed its digest leaves
\* the selected paper in the store file; and the run that follows a
\* completed dry run finds that paper among the seen ids and does not
\* select it.
C29_DryRunStillSaves ==
    /\ [](pc = "rp_saved" => db_file = StoreAfterRun)
    /\ [][(cmd = "paper" /\ pc \in {"rp_saved", "rp_pr"}) => db_file' = db_file]_vars
    /\ []((cmd = "paper" /\ dry_run /\ InList("print", log)) =>
            /\ InList("mark_seen", log) /\ InList("save", log)
            /\ db_file.kind = "dict"
            /\ is_seen(db_file.data, paper.paper_id))
    /\ []((AfterDryRun /\ pc = "rp_select") => done[Len(done)].new[1] \in seen_ids)
    /\ [][(AfterDryRun /\ pc = "rp_select" /\ paper'.kind = "paper") =>
            paper'.paper_id # done[Len(done)].new[1]]_vars

C29_Witness ==
    /\ Len(done) = 2
    /\ done[1].cmd = "paper" /\ done[1].dry /\ done[2].run = done[1].run + 1
    /\ InList("p1", papers)
    /\ done[1].new = <<"p1">> /\ done[2].new = <<"p2">>
    /\ db_file = File("dict", {Featured(done[1]), Featured(done[2])})

\* Every article in the buffer file is recorded in the article store file.
BufferWithinSeen(wf, af) ==
    wf.kind = "list" =>
        \A i \in 1..Len(wf.data) : wf.data[i] \in ArticleKeys(article_load(af))

\* C30: no step of run_collect, and no abort between two steps, takes the
\* files from a state where every article of the weekly buffer is recorded
\* in the seen-store to one where some article is not; and two run_collect
\* runs that complete one after the other append no article twice.
C30_BufferedIsSeen ==
    [][cmd = "collect" =>
          /\ BufferWithinSeen(weekly_file, adb_file)
                => BufferWithinSeen(weekly_file', adb_file')
          /\ \A i, j \in 1..Len(done') :
                (/\ done'[i].cmd = "collect" /\ done'[j].cmd = "collect"
                 /\ done'[j].run = done'[i].run + 1)
                    => \A k \in 1..Len(done'[j].new) :
                          ~InList(done'[j].new[k], done'[i].new)]_vars
====
